---- MODULE Spec2Model ----
(***************************************************************************)
(* Drafter live migration.                                                 *)
(*                                                                         *)
(* Part I  (specification Spec): the source side of a migration as it is   *)
(* written in cmd/drafter-silo-serve/main.go: one goroutine per device     *)
(* that sends DevInfo, runs the initial pass, then loops over              *)
(* GetLatestDirty / DirtyList / MigrateDirty, the suspend goroutine that   *)
(* waits for every device at the rendezvous, and the destination's         *)
(* resumeWg of the same file.                                              *)
(*                                                                         *)
(* Part II (specification SpecPeer): the destination side as written in    *)
(* pkg/roles/peer.go, Peer.MigrateFrom, with one goroutine per handler     *)
(* and per device stream.                                                  *)
(***************************************************************************)
EXTENDS Integers, Sequences, FiniteSets, TLC

(***************************************************************************)
(* Bounds of the model.                                                    *)
(***************************************************************************)
\* Blocks per device (totalBlocks, main.go:338).
NumBlocks == 1
\* A drain is small when it holds at most this many blocks. The source
\* compares with 200 (main.go:778); the model scales the figure down so
\* that a device of NumBlocks blocks can produce a large drain.
SmallDrainBlocks == 0
\* Guest writes in one run.
MaxWrites == 1
\* The suspend flag is set when subsequentSyncs exceeds this. The source
\* compares with 10 (main.go:782); scaled down.
SmallDrainsNeeded == 1

\* DirtyList frames the sending peer sends on one stream.
MaxDirtyLists == 1

\* availableIPs, the namespaces CreateNAT makes (nat.go:116).
NumNamespaces == 2
\* Calls of namespaces.Close by the caller of CreateNAT.
MaxCloseCalls == 2

\* Block size of the device the hints are about, in bytes.
HintBlockSize == 2

\* eres.storage.Size() of that device, in bytes.
HintSize == 5

\* Largest length of a hint.
MaxHintLength == 6

MemoryName == "drafter.drftmemory"
DiskName == "drafter.drftdisk"

\* The exposed resources that are migrated (exposedResources, main.go:639).
Devices == {MemoryName, DiskName}

Blocks == 0 .. (NumBlocks - 1)

VARIABLES
    \* ---- source side, cmd/drafter-silo-serve/main.go ----
    pc,                 \* position of each device goroutine
    suspendVM,          \* shared flag (main.go:617)
    suspendedVM,        \* per device local (main.go:742)
    passAuthority,      \* per device local (main.go:743)
    subsequentSyncs,    \* per device local (main.go:747)
    blocks,             \* per device: result of the last GetLatestDirty ({} is nil)
    suspendWg,          \* sync.WaitGroup counter (main.go:616)
    suspendedWg,        \* sync.WaitGroup counter (main.go:619)
    suspendPc,          \* position of the suspend goroutine
    bgPc,               \* position of the background MigrateDirty goroutine
    bgBlocks,           \* blocks captured by the background goroutine
    backgroundMigrationInProgress, \* per device sync.WaitGroup counter
    locked,             \* per device: modules.Lockable is locked
    dirty,              \* per device: dirty set of the tracker
    pending,            \* per device: block transfers queued and not yet sent
    stale,              \* per device: blocks whose copy at the destination is not the source's
    writes,             \* guest writes so far
    hist,               \* per device: what has been sent on its channel
    drainLog,           \* memory device: small drains seen in a row, and whether a large one was seen
    finalDrain,         \* per device: the drain after the suspend rendezvous
    resumeWg,           \* destination: sync.WaitGroup counter (main.go:379)
    dstAssumed,         \* destination: AssumeAuthority events handled, per device
    dstResumed,         \* destination: runner.Resume was called (main.go:551)
    msyncLog,           \* the runner.Msync calls made so far
    completedWg,        \* sync.WaitGroup counter (main.go:636)
    mainPc,             \* position of main: at completedWg.Wait() or past it
    \* ---- destination side, pkg/roles/peer.go ----
    senderPc,           \* the sending peer: what it sends next on each stream
    allDevicesSentOn,   \* the streams on which AllDevicesSent was sent
    devInfoQueue,       \* per stream: a DevInfo frame waits for HandleDevInfo
    eventQueue,         \* per stream: the Event frames that wait for HandleEvent
    devInfoPc,          \* per stream: position of the DevInfo callback
    receivedDevices,    \* peer.go:239
    receivedButNotReadyDevices, \* atomic.Int32 (peer.go:233)
    allDevicesReceivedCtx,      \* the context is done (peer.go:206)
    allDevicesReadyCtx,         \* the context is done (peer.go:209)
    hooks,              \* per stream: the MigrateFromHooks fired, in order
    onAllDevicesReceived,       \* times hooks.OnAllDevicesReceived fired
    migrateFromPc,      \* position of MigrateFrom itself
    dirtyLists,         \* per stream: DirtyList frames sent, waiting, applied and dropped
    atReturn,           \* what held when MigrateFrom returned
    \* ---- the session of MigrateFrom: contexts, Wait and Close, pkg/roles/peer.go ----
    streams,            \* the devices the sending peer migrates in this session
    unknownName,        \* the streams whose DevInfo names no configured device
    ctxCancelled,       \* the caller's ctx is done
    transport,          \* the readers: "Open", ended cleanly ("EOF") or "Broken"
    hypervisorCtx,      \* hypervisorCtx is done (peer.go:106)
    internalCtxCancelled,   \* cancel() of the panic handler was called (peer.go:222)
    protocolCtxCancelled,   \* cancelProtocolCtx() was called (peer.go:213)
    errs,               \* the errors joined into the result of MigrateFrom
    waitPc,             \* the function behind migratedPeer.Wait (peer.go:439)
    waitErr,            \* its result
    onAllMigrationsCompleted,   \* times hooks.OnAllMigrationsCompleted fired
    teardownPc,         \* the goroutine of peer.go:486-504 and its call of Close
    deviceCloseFuncsLock,   \* who holds the lock (peer.go:235)
    deviceCloseFuncs,   \* peer.go:236
    closeFuncs,         \* the deferred calls Close has still to run
    closeCalls,         \* what Close has invoked, in order
    closeErrs,          \* the errors joined into the result of Close
    sessionLog,         \* what held when the session's events happened
    \* ---- Runner.Resume and AgentServer.Accept, pkg/roles/runner.go and the vsock package ----
    resumePc,           \* position of Resume
    acceptPc,           \* position of Accept
    acceptTimedOut,     \* the deadline of acceptCtx has passed (runner.go:237)
    remoteCtx,          \* the ctx of Resume, remoteCtx of Accept, is done
    agentInternalCtxCancelled,  \* cancel() of the panic handler of Accept was called
    readyCtxCancelled,  \* cancelReadyCtx() was called
    lis,                \* the listener: "Open" or "Closed"
    closed,             \* the flag closed of StartAgentServer
    conn,               \* the accepted connection: "None", "Open" or "Closed"
    guest,              \* the guest agent: "Absent", "Dialled", "Connected", "Handshaken"
    lisCloserPc,        \* the goroutine of lines 97-108
    connCloserPc,       \* the goroutine of lines 142-162
    linkPc,             \* acceptingAgent.Wait, registry.LinkStream
    acceptErrs,         \* the errors joined into the result of Accept
    timedOutBeforeHandshake,    \* the deadline passed with no handshake done
    suspendAndClosePc,  \* position of SuspendAndCloseAgentServer (runner.go:287)
    linkErr,            \* acceptingAgent.Wait has an error to give
    snapshotLog,        \* what held when the snapshot of SuspendAndCloseAgentServer was asked for
    \* ---- a call of migratedPeer.Close by the caller of MigrateFrom, pkg/roles/peer.go ----
    callerPc,           \* position of the caller's call of Close
    callerCloseFuncs,   \* the deferred calls that call has still to run
    callerCloseErrs,    \* the errors joined into its result
    \* ---- CreateNAT and the namespace pool, pkg/roles/nat.go ----
    natCtx,             \* ctx of CreateNAT is done
    natStopped,         \* goroutineManager.StopAllGoroutines() was called (nat.go:90)
    natPc,              \* position of CreateNAT in its loop
    natI,               \* the loop variable i
    ready,              \* the channel ready is closed (nat.go:195, 335)
    hostVethsLock,      \* who holds the lock (nat.go:124)
    namespaceVethsLock, \* who holds the lock (nat.go:127)
    claimableNamespacesLock,    \* who holds the lock (nat.go:40)
    hostVeths,          \* nat.go:123
    namespaceVeths,     \* nat.go:126
    claimableNamespaces,    \* the keys of the map (nat.go:39)
    claimed,            \* the namespaces of the map whose claimed is true
    natClosed,          \* the flag closed (nat.go:131)
    natClosePc,         \* the background goroutine and the caller: position in Close
    natCloseCalls,      \* calls of Close the caller has made
    natErrs,            \* the errors joined into the result of CreateNAT
    natLog,             \* what the namespaces and the clients of the pool have seen
    \* ---- NeedAt and DontNeedAt callbacks, cmd/drafter-silo-serve/main.go ----
    hintPc,             \* "Idle", or the callback that runs, or the one that has returned
    hintOffset,         \* offset of the hint being handled
    hintLength,         \* length of the hint being handled
    hintB,              \* the loop variable b
    hintEndBlock,       \* endBlock
    prioritised,        \* calls of orderer.PrioritiseBlock per block for this hint
    removed             \* calls of orderer.Remove per block for this hint

mainVars == << completedWg, mainPc >>

srcVars == << pc, suspendVM, suspendedVM, passAuthority, subsequentSyncs, blocks,
              suspendWg, suspendedWg, suspendPc, bgPc, bgBlocks,
              backgroundMigrationInProgress, locked, dirty, pending,
              stale, writes, hist, drainLog, finalDrain, resumeWg, dstAssumed,
              dstResumed, msyncLog, mainVars >>

peerVars == << senderPc, allDevicesSentOn, devInfoQueue, eventQueue, devInfoPc,
               receivedDevices, receivedButNotReadyDevices, allDevicesReceivedCtx,
               allDevicesReadyCtx, hooks, onAllDevicesReceived, migrateFromPc,
               atReturn, dirtyLists >>

hintVars == << hintPc, hintOffset, hintLength, hintB, hintEndBlock, prioritised, removed >>

envVars == << streams, unknownName, ctxCancelled, transport, hypervisorCtx >>

waitVars == << protocolCtxCancelled, waitPc, waitErr, onAllMigrationsCompleted >>

closeVars == << teardownPc, deviceCloseFuncsLock, deviceCloseFuncs, closeFuncs, closeCalls,
                closeErrs >>

sessionVars == << envVars, waitVars, closeVars, internalCtxCancelled, errs, sessionLog >>

suspendVars == << suspendAndClosePc, linkErr, snapshotLog >>

agentVars == << suspendVars, resumePc, acceptPc, acceptTimedOut, remoteCtx, agentInternalCtxCancelled,
                readyCtxCancelled, lis, closed, conn, guest, lisCloserPc, connCloserPc,
                linkPc, acceptErrs, timedOutBeforeHandshake >>

callerVars == << callerPc, callerCloseFuncs, callerCloseErrs >>

natVars == << natCtx, natStopped, natPc, natI, ready, hostVethsLock, namespaceVethsLock,
              claimableNamespacesLock, hostVeths, namespaceVeths, claimableNamespaces,
              claimed, natClosed, natClosePc, natCloseCalls, natErrs, natLog >>

\* What no step of Peer.MigrateFrom and its session touches.
notMigrateFromVars == << srcVars, hintVars, agentVars, callerVars, natVars >>

\* What a step of one part leaves alone.
notSrcVars == << peerVars, hintVars, sessionVars, agentVars, callerVars, natVars >>

notPeerVars == << notMigrateFromVars, sessionVars >>

notHintVars == << srcVars, peerVars, sessionVars, agentVars, callerVars, natVars >>

notAgentVars == << srcVars, peerVars, hintVars, sessionVars, callerVars, natVars >>

notNatVars == << srcVars, peerVars, hintVars, sessionVars, agentVars, callerVars >>

vars == << srcVars, peerVars, hintVars, sessionVars, agentVars, callerVars, natVars >>

(***************************************************************************)
(* Part I: the source side.                                                *)
(***************************************************************************)

\* What has been sent on a device channel, kept as counts and flags.
NoHistory ==
    [ devInfo |-> 0, assume |-> 0, completed |-> 0,
      writeBeforeDevInfo |-> FALSE,   \* a WriteAt was sent before DevInfo
      afterCompleted |-> {},          \* kinds of frames sent after Completed
      finalListed |-> FALSE,          \* the post-suspend DirtyList was sent
      lastList |-> {},                \* blocks of the latest DirtyList
      unlisted |-> FALSE,             \* MigrateDirty was given blocks no DirtyList named
      open |-> {},                    \* drained blocks not yet given to MigrateDirty
      discarded |-> FALSE,            \* a non-nil drain was dropped at the break
      drains |-> 0,                   \* non-nil drains passed to MigrateDirty
      unsentAtAssume |-> {} ]         \* final dirty blocks not yet sent at AssumeAuthority

Cap(n) == IF n < 2 THEN n + 1 ELSE 2

\* The effect on the history of sending a frame of the given kind.
Sent(h, kind) ==
    LET late == IF h.completed > 0 THEN h.afterCompleted \cup {kind} ELSE h.afterCompleted
    IN  CASE kind = "DevInfo" -> [h EXCEPT !.devInfo = Cap(@), !.afterCompleted = late]
          [] kind = "AssumeAuthority" -> [h EXCEPT !.assume = Cap(@), !.afterCompleted = late]
          [] kind = "Completed" -> [h EXCEPT !.completed = Cap(@), !.afterCompleted = late]
          [] kind = "WriteAt" ->
                [h EXCEPT !.writeBeforeDevInfo = @ \/ (h.devInfo = 0), !.afterCompleted = late]
          [] OTHER -> [h EXCEPT !.afterCompleted = late]

InitSrc ==
    /\ pc = [d \in Devices |-> "SendDevInfo"]
    /\ suspendVM = FALSE
    /\ suspendedVM = [d \in Devices |-> FALSE]
    /\ passAuthority = [d \in Devices |-> FALSE]
    /\ subsequentSyncs = [d \in Devices |-> 0]
    /\ blocks = [d \in Devices |-> {}]
    /\ suspendWg = Cardinality(Devices)
    /\ suspendedWg = 1
    /\ suspendPc = "Wait"
    /\ bgPc = [d \in Devices |-> "none"]
    /\ bgBlocks = [d \in Devices |-> {}]
    /\ backgroundMigrationInProgress = [d \in Devices |-> 0]
    /\ locked = [d \in Devices |-> FALSE]
    /\ dirty = [d \in Devices |-> {}]
    /\ pending = [d \in Devices |-> {}]
    /\ stale = [d \in Devices |-> Blocks]
    /\ writes = 0
    /\ hist = [d \in Devices |-> NoHistory]
    /\ drainLog = [inRow |-> 0, large |-> FALSE]
    /\ finalDrain = [d \in Devices |-> [done |-> FALSE, set |-> {}]]
    /\ resumeWg = Cardinality(Devices)
    /\ dstAssumed = [d \in Devices |-> 0]
    /\ dstResumed = FALSE
    /\ msyncLog = [issued |-> FALSE, byOther |-> FALSE, flagged |-> FALSE,
                   suspending |-> FALSE, sinceDrain |-> 0]
    /\ completedWg = Cardinality(Devices)
    /\ mainPc = "Wait"

\* Frames sent by cfg.LockerHandler and cfg.UnlockerHandler around the lock.
SentAll(h, kinds) ==
    IF h.completed > 0 THEN [h EXCEPT !.afterCompleted = @ \cup kinds] ELSE h

\* dst.SendDevInfo (main.go:643-644).
SendDevInfo(d) ==
    /\ pc[d] = "SendDevInfo"
    /\ hist' = [hist EXCEPT ![d] = Sent(@, "DevInfo")]
    /\ pc' = [pc EXCEPT ![d] = "Migrate"]
    /\ UNCHANGED << suspendVM, suspendedVM, passAuthority, subsequentSyncs, blocks,
                    suspendWg, suspendedWg, suspendPc, bgPc, bgBlocks,
                    backgroundMigrationInProgress, locked, dirty, pending,
                    stale, writes, drainLog, finalDrain, resumeWg, dstAssumed,
                    dstResumed, msyncLog, mainVars, notSrcVars >>

\* mig.Migrate(eres.totalBlocks) (main.go:722): every block of the device is
\* queued for transfer; the transfers run in goroutines of the migrator.
Migrate(d) ==
    /\ pc[d] = "Migrate"
    /\ pending' = [pending EXCEPT ![d] = Blocks]
    /\ pc' = [pc EXCEPT ![d] = "WaitForCompletion"]
    /\ UNCHANGED << suspendVM, suspendedVM, passAuthority, subsequentSyncs, blocks,
                    suspendWg, suspendedWg, suspendPc, bgPc, bgBlocks,
                    backgroundMigrationInProgress, locked, dirty, stale, writes, hist, drainLog, finalDrain, resumeWg, dstAssumed,
                    dstResumed, msyncLog, mainVars, notSrcVars >>

\* One block transfer of the migrator: the block is read from the source
\* and written to the destination as a WriteAt frame.
TransferBlock(d, b) ==
    /\ b \in pending[d]
    /\ pending' = [pending EXCEPT ![d] = @ \ {b}]
    /\ stale' = [stale EXCEPT ![d] = @ \ {b}]
    /\ hist' = [hist EXCEPT ![d] = Sent(@, "WriteAt")]
    /\ UNCHANGED << pc, suspendVM, suspendedVM, passAuthority, subsequentSyncs, blocks,
                    suspendWg, suspendedWg, suspendPc, bgPc, bgBlocks,
                    backgroundMigrationInProgress, locked, dirty, writes, drainLog, finalDrain, resumeWg, dstAssumed, dstResumed, msyncLog, mainVars, notSrcVars >>

\* mig.WaitForCompletion() after the initial pass (main.go:726).
WaitForCompletion(d) ==
    /\ pc[d] = "WaitForCompletion"
    /\ pending[d] = {}
    /\ pc' = [pc EXCEPT ![d] = "LoopHead"]
    /\ UNCHANGED << suspendVM, suspendedVM, passAuthority, subsequentSyncs, blocks,
                    suspendWg, suspendedWg, suspendPc, bgPc, bgBlocks,
                    backgroundMigrationInProgress, locked, dirty, pending,
                    stale, writes, hist, drainLog, finalDrain, resumeWg, dstAssumed,
                    dstResumed, msyncLog, mainVars, notSrcVars >>

\* The head of the loop (main.go:749-752): the device goes to the suspend
\* rendezvous once, the first time it sees the suspend flag.
LoopHead(d) ==
    /\ pc[d] = "LoopHead"
    /\ IF suspendVM /\ ~suspendedVM[d]
       THEN /\ suspendedVM' = [suspendedVM EXCEPT ![d] = TRUE]
            /\ suspendWg' = suspendWg - 1
            /\ pc' = [pc EXCEPT ![d] = "UnlockBeforeWait"]
       ELSE /\ pc' = [pc EXCEPT ![d] = "Msync"]
            /\ UNCHANGED << suspendedVM, suspendWg >>
    /\ UNCHANGED << suspendVM, passAuthority, subsequentSyncs, blocks,
                    suspendedWg, suspendPc, bgPc, bgBlocks,
                    backgroundMigrationInProgress, locked, dirty, pending,
                    stale, writes, hist, drainLog, finalDrain, resumeWg, dstAssumed,
                    dstResumed, msyncLog, mainVars, notSrcVars >>

\* mig.Unlock() at the rendezvous (main.go:754), through cfg.UnlockerHandler
\* (main.go:700-710).
UnlockBeforeWait(d) ==
    /\ pc[d] = "UnlockBeforeWait"
    /\ locked' = [locked EXCEPT ![d] = FALSE]
    /\ hist' = [hist EXCEPT ![d] = SentAll(@, {"Unlock"})]
    /\ pc' = [pc EXCEPT ![d] = "SuspendedWgWait"]
    /\ UNCHANGED << suspendVM, suspendedVM, passAuthority, subsequentSyncs, blocks,
                    suspendWg, suspendedWg, suspendPc, bgPc, bgBlocks,
                    backgroundMigrationInProgress, dirty, pending,
                    stale, writes, drainLog, finalDrain, resumeWg, dstAssumed,
                    dstResumed, msyncLog, mainVars, notSrcVars >>

\* Faulty variant: the device does not wait for runner.Suspend to return.
SuspendedWgNotAwaited == TRUE

\* suspendedWg.Wait() returns when the counter is zero (main.go:756).
SuspendedWgReleased == suspendedWg = 0

\* suspendedWg.Wait(); passAuthority = true (main.go:756-758).
SuspendedWgWait(d) ==
    /\ pc[d] = "SuspendedWgWait"
    /\ SuspendedWgReleased
    /\ passAuthority' = [passAuthority EXCEPT ![d] = TRUE]
    /\ pc' = [pc EXCEPT ![d] = "BackgroundWait"]
    /\ UNCHANGED << suspendVM, suspendedVM, subsequentSyncs, blocks,
                    suspendWg, suspendedWg, suspendPc, bgPc, bgBlocks,
                    backgroundMigrationInProgress, locked, dirty, pending,
                    stale, writes, hist, drainLog, finalDrain, resumeWg, dstAssumed,
                    dstResumed, msyncLog, mainVars, notSrcVars >>

\* backgroundMigrationInProgress.Wait() (main.go:760).
BackgroundWait(d) ==
    /\ pc[d] = "BackgroundWait"
    /\ backgroundMigrationInProgress[d] = 0
    /\ pc' = [pc EXCEPT ![d] = "Msync"]
    /\ UNCHANGED << suspendVM, suspendedVM, passAuthority, subsequentSyncs, blocks,
                    suspendWg, suspendedWg, suspendPc, bgPc, bgBlocks,
                    backgroundMigrationInProgress, locked, dirty, pending,
                    stale, writes, hist, drainLog, finalDrain, resumeWg, dstAssumed,
                    dstResumed, msyncLog, mainVars, notSrcVars >>

\* Faulty variant: the memory device flushes whether or not the flag is set.
IssuesMsyncWhenFlagged(d) == d = MemoryName

\* if !suspendVM && eres.resource.name == iconfig.MemoryName (main.go:763).
IssuesMsync(d) == ~suspendVM /\ d = MemoryName

\* runner.Msync for the memory device while the flag is not set
\* (main.go:763-767). msyncLog keeps who issued an Msync and when.
Msync(d) ==
    /\ pc[d] = "Msync"
    /\ msyncLog' = IF IssuesMsync(d)
                   THEN [ issued |-> TRUE,
                          byOther |-> msyncLog.byOther \/ d # MemoryName,
                          flagged |-> msyncLog.flagged \/ suspendVM,
                          suspending |-> msyncLog.suspending \/ suspendPc # "Wait",
                          sinceDrain |-> IF d = MemoryName
                                         THEN Cap(msyncLog.sinceDrain)
                                         ELSE msyncLog.sinceDrain ]
                   ELSE msyncLog
    /\ pc' = [pc EXCEPT ![d] = "GetLatestDirty"]
    /\ UNCHANGED << suspendVM, suspendedVM, passAuthority, subsequentSyncs, blocks,
                    suspendWg, suspendedWg, suspendPc, bgPc, bgBlocks,
                    backgroundMigrationInProgress, locked, dirty, pending,
                    stale, writes, hist, drainLog, finalDrain, resumeWg, dstAssumed,
                    dstResumed, mainVars, notSrcVars >>

\* mig.GetLatestDirty() (main.go:769): the device is locked through
\* cfg.LockerHandler (main.go:689-699), the dirty set is drained, and the
\* device is unlocked again unless the drain is empty (nil).
GetLatestDirty(d) ==
    /\ pc[d] = "GetLatestDirty"
    /\ blocks' = [blocks EXCEPT ![d] = dirty[d]]
    /\ dirty' = [dirty EXCEPT ![d] = {}]
    /\ locked' = [locked EXCEPT ![d] = (dirty[d] = {})]
    /\ hist' = [hist EXCEPT ![d] =
                  [SentAll(@, IF dirty[d] = {} THEN {"Lock"} ELSE {"Lock", "Unlock"})
                      EXCEPT !.open = dirty[d]]]
    /\ finalDrain' = [finalDrain EXCEPT ![d] =
                        IF passAuthority[d] THEN [done |-> TRUE, set |-> dirty[d]] ELSE @]
    /\ msyncLog' = IF d = MemoryName THEN [msyncLog EXCEPT !.sinceDrain = 0] ELSE msyncLog
    /\ pc' = [pc EXCEPT ![d] = IF dirty[d] = {} THEN "UnlockNil" ELSE "Threshold"]
    /\ UNCHANGED << suspendVM, suspendedVM, passAuthority, subsequentSyncs,
                    suspendWg, suspendedWg, suspendPc, bgPc, bgBlocks,
                    backgroundMigrationInProgress, pending,
                    stale, writes, drainLog, resumeWg, dstAssumed, dstResumed, mainVars, notSrcVars >>

\* Faulty variant: the device is left locked after an empty drain.
UnlockNilSkipped(d) ==
    /\ pc[d] = "UnlockNil"
    /\ pc' = [pc EXCEPT ![d] = "Threshold"]
    /\ UNCHANGED << suspendVM, suspendedVM, passAuthority, subsequentSyncs, blocks,
                    suspendWg, suspendedWg, suspendPc, bgPc, bgBlocks,
                    backgroundMigrationInProgress, dirty, pending,
                    stale, writes, drainLog, finalDrain, resumeWg, dstAssumed,
                    dstResumed, msyncLog, locked, hist, mainVars, notSrcVars >>

\* if blocks == nil { mig.Unlock() } (main.go:770-772).
UnlockNil(d) ==
    /\ pc[d] = "UnlockNil"
    /\ locked' = [locked EXCEPT ![d] = FALSE]
    /\ hist' = [hist EXCEPT ![d] = SentAll(@, {"Unlock"})]
    /\ pc' = [pc EXCEPT ![d] = "Threshold"]
    /\ UNCHANGED << suspendVM, suspendedVM, passAuthority, subsequentSyncs, blocks,
                    suspendWg, suspendedWg, suspendPc, bgPc, bgBlocks,
                    backgroundMigrationInProgress, dirty, pending,
                    stale, writes, drainLog, finalDrain, resumeWg, dstAssumed,
                    dstResumed, msyncLog, mainVars, notSrcVars >>

\* Faulty variant: the variant left in the comment of main.go:778, which does not
\* count an empty drain.
IsSmallNonEmptyDrain(bs) == Cardinality(bs) <= SmallDrainBlocks /\ Cardinality(bs) > 0

\* len(blocks) <= 200 (main.go:778).
IsSmallDrain(bs) == Cardinality(bs) <= SmallDrainBlocks

\* Faulty variant: every device drives the suspend decision.
AnyDeviceDrivesSuspend(d) == TRUE

\* eres.resource.name == iconfig.MemoryName (main.go:779).
DrivesSuspend(d) == d = MemoryName

\* subsequentSyncs > 10 (main.go:782).
EnoughSmallDrains(n) == n > SmallDrainsNeeded

\* The drain counts towards the suspend decision (main.go:778-779).
CountsAsSmallDrain(d) ==
    IsSmallDrain(blocks[d]) /\ ~suspendedVM[d] /\ DrivesSuspend(d)

\* The break and the threshold check (main.go:773-788).
Threshold(d) ==
    /\ pc[d] = "Threshold"
    /\ IF suspendedVM[d] /\ ~passAuthority[d]
       THEN /\ pc' = [pc EXCEPT ![d] = "FinalWait"]
            /\ hist' = [hist EXCEPT ![d].discarded = @ \/ hist[d].open # {}]
            /\ UNCHANGED << subsequentSyncs, suspendVM, drainLog >>
       ELSE /\ pc' = [pc EXCEPT ![d] = "DirtyList"]
            /\ UNCHANGED hist
            /\ IF CountsAsSmallDrain(d)
               THEN /\ subsequentSyncs' = [subsequentSyncs EXCEPT ![d] = @ + 1]
                    /\ suspendVM' = (suspendVM \/ EnoughSmallDrains(subsequentSyncs[d] + 1))
               ELSE UNCHANGED << subsequentSyncs, suspendVM >>
            /\ drainLog' =
                 IF d = MemoryName /\ ~suspendedVM[d]
                 THEN IF Cardinality(blocks[d]) <= SmallDrainBlocks
                      THEN [drainLog EXCEPT !.inRow = @ + 1]
                      ELSE [drainLog EXCEPT !.inRow = 0, !.large = TRUE]
                 ELSE drainLog
    /\ UNCHANGED << suspendedVM, passAuthority, blocks,
                    suspendWg, suspendedWg, suspendPc, bgPc, bgBlocks,
                    backgroundMigrationInProgress, locked, dirty, pending,
                    stale, writes, finalDrain, resumeWg, dstAssumed,
                    dstResumed, msyncLog, mainVars, notSrcVars >>

\* Faulty variant: no DirtyList is sent once the device has been at the rendezvous.
SendsDirtyListBeforeSuspendOnly(d) == blocks[d] # {} /\ ~suspendedVM[d]

\* if blocks != nil (main.go:794).
SendsDirtyList(d) == blocks[d] # {}

\* dst.DirtyList(blocks) when blocks is not nil (main.go:794-798).
DirtyList(d) ==
    /\ pc[d] = "DirtyList"
    /\ hist' = [hist EXCEPT ![d] =
                  IF SendsDirtyList(d)
                  THEN [Sent(@, "DirtyList") EXCEPT !.finalListed = @ \/ passAuthority[d],
                                                    !.lastList = blocks[d]]
                  ELSE @]
    /\ pc' = [pc EXCEPT ![d] = "AssumeAuthority"]
    /\ UNCHANGED << suspendVM, suspendedVM, passAuthority, subsequentSyncs, blocks,
                    suspendWg, suspendedWg, suspendPc, bgPc, bgBlocks,
                    backgroundMigrationInProgress, locked, dirty, pending,
                    stale, writes, drainLog, finalDrain, resumeWg, dstAssumed,
                    dstResumed, msyncLog, mainVars, notSrcVars >>

\* if passAuthority { dst.SendEvent(protocol.EventAssumeAuthority) }
\* (main.go:800-808).
AssumeAuthority(d) ==
    /\ pc[d] = "AssumeAuthority"
    /\ IF passAuthority[d]
       THEN /\ passAuthority' = [passAuthority EXCEPT ![d] = FALSE]
            /\ hist' = [hist EXCEPT ![d] =
                          [Sent(@, "AssumeAuthority") EXCEPT !.unsentAtAssume =
                              blocks[d] \cap stale[d]]]
       ELSE UNCHANGED << passAuthority, hist >>
    /\ pc' = [pc EXCEPT ![d] = "MigrateDirty"]
    /\ UNCHANGED << suspendVM, suspendedVM, subsequentSyncs, blocks,
                    suspendWg, suspendedWg, suspendPc, bgPc, bgBlocks,
                    backgroundMigrationInProgress, locked, dirty, pending,
                    stale, writes, drainLog, finalDrain, resumeWg, dstAssumed,
                    dstResumed, msyncLog, mainVars, notSrcVars >>

\* The background goroutine is chosen (main.go:810).
InBackground(d) == suspendVM /\ ~suspendedVM[d] /\ blocks[d] # {}

\* mig.MigrateDirty(blocks), in a new goroutine or in the loop
\* (main.go:810-823).
MigrateDirty(d) ==
    /\ pc[d] = "MigrateDirty"
    /\ IF InBackground(d)
       THEN /\ bgPc' = [bgPc EXCEPT ![d] = "spawned"]
            /\ bgBlocks' = [bgBlocks EXCEPT ![d] = blocks[d]]
            /\ UNCHANGED pending
       ELSE /\ pending' = [pending EXCEPT ![d] = @ \cup blocks[d]]
            /\ UNCHANGED << bgPc, bgBlocks >>
    /\ hist' = [hist EXCEPT ![d] =
                  [@ EXCEPT !.unlisted = @ \/ ~(blocks[d] \subseteq hist[d].lastList),
                            !.open = @ \ (blocks[d] \cap hist[d].lastList),
                            !.drains = IF blocks[d] # {} THEN Cap(@) ELSE @]]
    /\ pc' = [pc EXCEPT ![d] = "LoopHead"]
    /\ UNCHANGED << suspendVM, suspendedVM, passAuthority, subsequentSyncs, blocks,
                    suspendWg, suspendedWg, suspendPc,
                    backgroundMigrationInProgress, locked, dirty, stale, writes, drainLog, finalDrain, resumeWg, dstAssumed,
                    dstResumed, msyncLog, mainVars, notSrcVars >>

\* backgroundMigrationInProgress.Add(1), the first statement of the
\* background goroutine (main.go:813).
BackgroundAdd(d) ==
    /\ bgPc[d] = "spawned"
    /\ backgroundMigrationInProgress' = [backgroundMigrationInProgress EXCEPT ![d] = @ + 1]
    /\ bgPc' = [bgPc EXCEPT ![d] = "added"]
    /\ UNCHANGED << pc, suspendVM, suspendedVM, passAuthority, subsequentSyncs, blocks,
                    suspendWg, suspendedWg, suspendPc, bgBlocks,
                    locked, dirty, pending,
                    stale, writes, hist, drainLog, finalDrain, resumeWg, dstAssumed,
                    dstResumed, msyncLog, mainVars, notSrcVars >>

\* mig.MigrateDirty(blocks) of the background goroutine (main.go:815).
BackgroundMigrateDirty(d) ==
    /\ bgPc[d] = "added"
    /\ pending' = [pending EXCEPT ![d] = @ \cup bgBlocks[d]]
    /\ bgPc' = [bgPc EXCEPT ![d] = "migrated"]
    /\ UNCHANGED << pc, suspendVM, suspendedVM, passAuthority, subsequentSyncs, blocks,
                    suspendWg, suspendedWg, suspendPc, bgBlocks,
                    backgroundMigrationInProgress, locked, dirty, stale, writes, hist, drainLog, finalDrain, resumeWg, dstAssumed,
                    dstResumed, msyncLog, mainVars, notSrcVars >>

\* defer backgroundMigrationInProgress.Done() (main.go:812).
BackgroundDone(d) ==
    /\ bgPc[d] = "migrated"
    /\ backgroundMigrationInProgress' = [backgroundMigrationInProgress EXCEPT ![d] = @ - 1]
    /\ bgPc' = [bgPc EXCEPT ![d] = "done"]
    /\ UNCHANGED << pc, suspendVM, suspendedVM, passAuthority, subsequentSyncs, blocks,
                    suspendWg, suspendedWg, suspendPc, bgBlocks,
                    locked, dirty, pending,
                    stale, writes, hist, drainLog, finalDrain, resumeWg, dstAssumed,
                    dstResumed, msyncLog, mainVars, notSrcVars >>

\* mig.WaitForCompletion() after the loop (main.go:826).
FinalWait(d) ==
    /\ pc[d] = "FinalWait"
    /\ pending[d] = {}
    /\ pc' = [pc EXCEPT ![d] = "Completed"]
    /\ UNCHANGED << suspendVM, suspendedVM, passAuthority, subsequentSyncs, blocks,
                    suspendWg, suspendedWg, suspendPc, bgPc, bgBlocks,
                    backgroundMigrationInProgress, locked, dirty, pending,
                    stale, writes, hist, drainLog, finalDrain, resumeWg, dstAssumed,
                    dstResumed, msyncLog, mainVars, notSrcVars >>

\* dst.SendEvent(protocol.EventCompleted) and the deferred
\* completedWg.Done() (main.go:830-833, 641).
Completed(d) ==
    /\ pc[d] = "Completed"
    /\ hist' = [hist EXCEPT ![d] = Sent(@, "Completed")]
    /\ completedWg' = completedWg - 1
    /\ pc' = [pc EXCEPT ![d] = "Done"]
    /\ UNCHANGED << suspendVM, suspendedVM, passAuthority, subsequentSyncs, blocks,
                    suspendWg, suspendedWg, suspendPc, bgPc, bgBlocks,
                    backgroundMigrationInProgress, locked, dirty, pending,
                    stale, writes, drainLog, finalDrain, resumeWg, dstAssumed,
                    dstResumed, msyncLog, mainPc, notSrcVars >>

\* Faulty variant: main does not wait for the device goroutines.
CompletedWgNotAwaited == TRUE

\* completedWg.Wait() returns when the counter is zero (main.go:836).
CompletedWgReleased == completedWg = 0

\* completedWg.Wait() returns and main finishes (main.go:836-839).
CompletedWgWait ==
    /\ mainPc = "Wait"
    /\ CompletedWgReleased
    /\ mainPc' = "Finished"
    /\ UNCHANGED << pc, suspendVM, suspendedVM, passAuthority, subsequentSyncs, blocks,
                    suspendWg, suspendedWg, suspendPc, bgPc, bgBlocks,
                    backgroundMigrationInProgress, locked, dirty, pending,
                    stale, writes, hist, drainLog, finalDrain, resumeWg, dstAssumed,
                    dstResumed, msyncLog, completedWg, notSrcVars >>

\* Faulty variant: runner.Suspend is called without waiting for the devices.
SuspendCalledAtOnce == TRUE

\* Faulty variant: the guest goes on running after runner.Suspend.
GuestNeverSuspended == TRUE

\* suspendWg.Wait() returns when the counter is zero (main.go:621).
SuspendWgReleased == suspendWg = 0

\* The suspend goroutine calls runner.Suspend (main.go:621-627).
SuspendCall ==
    /\ suspendPc = "Wait"
    /\ SuspendWgReleased
    /\ suspendPc' = "Suspending"
    /\ UNCHANGED << pc, suspendVM, suspendedVM, passAuthority, subsequentSyncs, blocks,
                    suspendWg, suspendedWg, bgPc, bgBlocks,
                    backgroundMigrationInProgress, locked, dirty, pending,
                    stale, writes, hist, drainLog, finalDrain, resumeWg, dstAssumed,
                    dstResumed, msyncLog, mainVars, notSrcVars >>

\* runner.Suspend returns: the guest is suspended; suspendedWg.Done()
\* (main.go:627-633).
SuspendReturn ==
    /\ suspendPc = "Suspending"
    /\ suspendPc' = "Done"
    /\ suspendedWg' = suspendedWg - 1
    /\ UNCHANGED << pc, suspendVM, suspendedVM, passAuthority, subsequentSyncs, blocks,
                    suspendWg, bgPc, bgBlocks,
                    backgroundMigrationInProgress, locked, dirty, pending,
                    stale, writes, hist, drainLog, finalDrain, resumeWg, dstAssumed,
                    dstResumed, msyncLog, mainVars, notSrcVars >>

\* The guest on the source runs until runner.Suspend has returned.
SourceVMRunning == suspendPc # "Done"

\* A write of the running guest to a block of a device through the lockable
\* storage (main.go:329-336): it waits while the device is locked, and the
\* dirty tracker records the block.
GuestWrite(d, b) ==
    /\ SourceVMRunning
    /\ ~locked[d]
    /\ writes < MaxWrites
    /\ writes' = writes + 1
    /\ stale' = [stale EXCEPT ![d] = @ \cup {b}]
    /\ dirty' = [dirty EXCEPT ![d] = @ \cup {b}]
    /\ UNCHANGED << pc, suspendVM, suspendedVM, passAuthority, subsequentSyncs, blocks,
                    suspendWg, suspendedWg, suspendPc, bgPc, bgBlocks,
                    backgroundMigrationInProgress, locked, pending,
                    hist, drainLog, finalDrain, resumeWg, dstAssumed,
                    dstResumed, msyncLog, mainVars, notSrcVars >>

\* A write of a guest that never stops writing: GuestWrite without the
\* bound on the number of writes.
GuestKeepsWriting(d, b) ==
    /\ SourceVMRunning
    /\ ~locked[d]
    /\ writes' = IF writes < MaxWrites THEN writes + 1 ELSE writes
    /\ stale' = [stale EXCEPT ![d] = @ \cup {b}]
    /\ dirty' = [dirty EXCEPT ![d] = @ \cup {b}]
    /\ UNCHANGED << pc, suspendVM, suspendedVM, passAuthority, subsequentSyncs, blocks,
                    suspendWg, suspendedWg, suspendPc, bgPc, bgBlocks,
                    backgroundMigrationInProgress, locked, pending,
                    hist, drainLog, finalDrain, resumeWg, dstAssumed,
                    dstResumed, msyncLog, mainVars, notSrcVars >>

\* The destination's event handler (main.go:486-498): resumeWg.Done() for
\* an AssumeAuthority event that was sent and not yet handled.
DstAssumeAuthority(d) ==
    /\ dstAssumed[d] < hist[d].assume
    /\ dstAssumed' = [dstAssumed EXCEPT ![d] = @ + 1]
    /\ resumeWg' = resumeWg - 1
    /\ UNCHANGED << pc, suspendVM, suspendedVM, passAuthority, subsequentSyncs, blocks,
                    suspendWg, suspendedWg, suspendPc, bgPc, bgBlocks,
                    backgroundMigrationInProgress, locked, dirty, pending,
                    stale, writes, hist, drainLog, finalDrain, dstResumed, msyncLog, mainVars, notSrcVars >>

\* resumeWg.Wait() and runner.Resume on the destination (main.go:530-553).
DstResume ==
    /\ ~dstResumed
    /\ resumeWg = 0
    /\ dstResumed' = TRUE
    /\ UNCHANGED << pc, suspendVM, suspendedVM, passAuthority, subsequentSyncs, blocks,
                    suspendWg, suspendedWg, suspendPc, bgPc, bgBlocks,
                    backgroundMigrationInProgress, locked, dirty, pending,
                    stale, writes, hist, drainLog, finalDrain, resumeWg, dstAssumed,
                    msyncLog, mainVars, notSrcVars >>

DeviceStep(d) ==
    \/ SendDevInfo(d)
    \/ Migrate(d)
    \/ WaitForCompletion(d)
    \/ LoopHead(d)
    \/ UnlockBeforeWait(d)
    \/ SuspendedWgWait(d)
    \/ BackgroundWait(d)
    \/ Msync(d)
    \/ GetLatestDirty(d)
    \/ UnlockNil(d)
    \/ Threshold(d)
    \/ DirtyList(d)
    \/ AssumeAuthority(d)
    \/ MigrateDirty(d)
    \/ FinalWait(d)
    \/ Completed(d)
    \/ BackgroundAdd(d)
    \/ BackgroundMigrateDirty(d)
    \/ BackgroundDone(d)
    \/ DstAssumeAuthority(d)

\* The steps of the goroutine of a device (main.go:640-834).
LoopStep(d) ==
    \/ SendDevInfo(d)
    \/ Migrate(d)
    \/ WaitForCompletion(d)
    \/ LoopHead(d)
    \/ UnlockBeforeWait(d)
    \/ SuspendedWgWait(d)
    \/ BackgroundWait(d)
    \/ Msync(d)
    \/ GetLatestDirty(d)
    \/ UnlockNil(d)
    \/ Threshold(d)
    \/ DirtyList(d)
    \/ AssumeAuthority(d)
    \/ MigrateDirty(d)
    \/ FinalWait(d)
    \/ Completed(d)

\* The steps of the background goroutine of a device (main.go:811-817).
BackgroundStep(d) ==
    \/ BackgroundAdd(d)
    \/ BackgroundMigrateDirty(d)
    \/ BackgroundDone(d)

NextSrc ==
    \/ \E d \in Devices : DeviceStep(d)
    \/ \E d \in Devices : \E b \in Blocks : TransferBlock(d, b) \/ GuestWrite(d, b)
    \/ SuspendCall
    \/ SuspendReturn
    \/ DstResume
    \/ CompletedWgWait


(***************************************************************************)
(* Part II: the destination side, Peer.MigrateFrom (pkg/roles/peer.go).    *)
(*                                                                         *)
(* The sending peer is not part of the sources at hand. It is modelled     *)
(* from the specification: on each stream DevInfo comes first and          *)
(* Completed last, AllDevicesSent is sent once after the DevInfo of every  *)
(* device, and authority is transferred after that.                        *)
(***************************************************************************)

InitPeer ==
    /\ senderPc = [d \in Devices |-> "DevInfo"]
    /\ allDevicesSentOn = {}
    /\ devInfoQueue = [d \in Devices |-> FALSE]
    /\ eventQueue = [d \in Devices |-> << >>]
    /\ devInfoPc = [d \in Devices |-> "Idle"]
    /\ receivedDevices = {}
    /\ receivedButNotReadyDevices = 0
    /\ allDevicesReceivedCtx = FALSE
    /\ allDevicesReadyCtx = FALSE
    /\ hooks = [d \in Devices |-> << >>]
    /\ onAllDevicesReceived = 0
    /\ migrateFromPc = "WaitAllDevicesReceived"
    /\ atReturn = [returned |-> FALSE, withoutAuthority |-> {}, cancelled |-> FALSE,
                   errs |-> {}]
    /\ dirtyLists = [d \in Devices |-> [sent |-> 0, queued |-> 0, applied |-> 0, dropped |-> 0]]

\* The sending peer sends DevInfo on a stream.
PeerSendDevInfo(d) ==
    /\ d \in streams
    /\ transport = "Open"
    /\ senderPc[d] = "DevInfo"
    /\ senderPc' = [senderPc EXCEPT ![d] = "TransferAuthority"]
    /\ devInfoQueue' = [devInfoQueue EXCEPT ![d] = TRUE]
    /\ UNCHANGED << allDevicesSentOn, eventQueue, devInfoPc, receivedDevices,
                    receivedButNotReadyDevices, allDevicesReceivedCtx,
                    allDevicesReadyCtx, hooks, onAllDevicesReceived, migrateFromPc,
                    atReturn, dirtyLists, notPeerVars >>

\* The sending peer sends AllDevicesSent, on some stream, once the DevInfo
\* of every device has been sent.
PeerSendAllDevicesSent(d) ==
    /\ d \in streams
    /\ transport = "Open"
    /\ allDevicesSentOn = {}
    /\ \A e \in streams : senderPc[e] # "DevInfo"
    /\ allDevicesSentOn' = {d}
    /\ eventQueue' = [eventQueue EXCEPT ![d] = Append(@, "AllDevicesSent")]
    /\ UNCHANGED << senderPc, devInfoQueue, devInfoPc, receivedDevices,
                    receivedButNotReadyDevices, allDevicesReceivedCtx,
                    allDevicesReadyCtx, hooks, onAllDevicesReceived, migrateFromPc,
                    atReturn, dirtyLists, notPeerVars >>

\* The sending peer transfers the authority of a device.
PeerSendTransferAuthority(d) ==
    /\ d \in streams
    /\ transport = "Open"
    /\ senderPc[d] = "TransferAuthority"
    /\ allDevicesSentOn # {}
    /\ senderPc' = [senderPc EXCEPT ![d] = "Completed"]
    /\ eventQueue' = [eventQueue EXCEPT ![d] = Append(@, "TransferAuthority")]
    /\ UNCHANGED << allDevicesSentOn, devInfoQueue, devInfoPc, receivedDevices,
                    receivedButNotReadyDevices, allDevicesReceivedCtx,
                    allDevicesReadyCtx, hooks, onAllDevicesReceived, migrateFromPc,
                    atReturn, dirtyLists, notPeerVars >>

\* The sending peer sends Completed, the last frame of a stream.
PeerSendCompleted(d) ==
    /\ d \in streams
    /\ transport = "Open"
    /\ senderPc[d] = "Completed"
    /\ senderPc' = [senderPc EXCEPT ![d] = "Done"]
    /\ eventQueue' = [eventQueue EXCEPT ![d] = Append(@, "Completed")]
    /\ UNCHANGED << allDevicesSentOn, devInfoQueue, devInfoPc, receivedDevices,
                    receivedButNotReadyDevices, allDevicesReceivedCtx,
                    allDevicesReadyCtx, hooks, onAllDevicesReceived, migrateFromPc,
                    atReturn, dirtyLists, notPeerVars >>

\* What a recovered panic does to the joined errors.
JoinPanic(es, e) == es \cup {e}

\* strings.TrimSpace(path) == "" after the switch on di.Name
\* (peer.go:258-285): the name is none of the six, or its path is blank.
IsUnknownDeviceName(d) == d \in unknownName

\* from.HandleDevInfo() takes the DevInfo frame and enters the callback
\* (peer.go:390-394, 252-287), which panics with ErrUnknownDeviceName when
\* it has no path for the name.
HandleDevInfo(d) ==
    /\ d \in streams
    /\ devInfoQueue[d]
    /\ devInfoPc[d] = "Idle"
    /\ devInfoQueue' = [devInfoQueue EXCEPT ![d] = FALSE]
    /\ IF IsUnknownDeviceName(d)
       THEN /\ devInfoPc' = [devInfoPc EXCEPT ![d] = "Panicked"]
            /\ errs' = JoinPanic(errs, "ErrUnknownDeviceName")
            /\ internalCtxCancelled' = TRUE
       ELSE /\ devInfoPc' = [devInfoPc EXCEPT ![d] = "Append"]
            /\ UNCHANGED << errs, internalCtxCancelled >>
    /\ UNCHANGED << senderPc, allDevicesSentOn, eventQueue, receivedDevices,
                    receivedButNotReadyDevices, allDevicesReceivedCtx,
                    allDevicesReadyCtx, hooks, onAllDevicesReceived, migrateFromPc,
                    atReturn, dirtyLists, notMigrateFromVars, envVars, waitVars, closeVars,
                    sessionLog >>

\* receivedDevices = append(receivedDevices, di.Name) under its lock
\* (peer.go:289-291).
AppendReceivedDevice(d) ==
    /\ d \in streams
    /\ devInfoPc[d] = "Append"
    /\ receivedDevices' = receivedDevices \cup {d}
    /\ devInfoPc' = [devInfoPc EXCEPT ![d] = "Add"]
    /\ UNCHANGED << senderPc, allDevicesSentOn, devInfoQueue, eventQueue,
                    receivedButNotReadyDevices, allDevicesReceivedCtx,
                    allDevicesReadyCtx, hooks, onAllDevicesReceived, migrateFromPc,
                    atReturn, dirtyLists, notPeerVars >>

\* receivedButNotReadyDevices.Add(1) (peer.go:293).
AddReceivedButNotReady(d) ==
    /\ d \in streams
    /\ devInfoPc[d] = "Add"
    /\ receivedButNotReadyDevices' = receivedButNotReadyDevices + 1
    /\ devInfoPc' = [devInfoPc EXCEPT ![d] = "OnDeviceReceived"]
    /\ UNCHANGED << senderPc, allDevicesSentOn, devInfoQueue, eventQueue,
                    receivedDevices, allDevicesReceivedCtx,
                    allDevicesReadyCtx, hooks, onAllDevicesReceived, migrateFromPc,
                    atReturn, dirtyLists, notPeerVars >>

\* hooks.OnDeviceReceived (peer.go:295-297).
OnDeviceReceived(d) ==
    /\ d \in streams
    /\ devInfoPc[d] = "OnDeviceReceived"
    /\ hooks' = [hooks EXCEPT ![d] = Append(@, "OnDeviceReceived")]
    /\ devInfoPc' = [devInfoPc EXCEPT ![d] = "Init"]
    /\ UNCHANGED << senderPc, allDevicesSentOn, devInfoQueue, eventQueue,
                    receivedDevices, receivedButNotReadyDevices, allDevicesReceivedCtx,
                    allDevicesReadyCtx, onAllDevicesReceived, migrateFromPc,
                    atReturn, dirtyLists, notPeerVars >>

\* The backing file, the waiting cache and the NBD device are set up:
\* device.Init() has succeeded (peer.go:299-341).
InitDevice(d) ==
    /\ d \in streams
    /\ devInfoPc[d] = "Init"
    /\ devInfoPc' = [devInfoPc EXCEPT ![d] = "Register"]
    /\ UNCHANGED << senderPc, allDevicesSentOn, devInfoQueue, eventQueue,
                    receivedDevices, receivedButNotReadyDevices, allDevicesReceivedCtx,
                    allDevicesReadyCtx, hooks, onAllDevicesReceived, migrateFromPc,
                    atReturn, dirtyLists, notPeerVars >>

\* device.Close and device.Shutdown are appended to deviceCloseFuncs under
\* its lock (peer.go:343-346).
RegisterCloseFuncs(d) ==
    /\ d \in streams
    /\ devInfoPc[d] = "Register"
    /\ deviceCloseFuncsLock = "Free"
    /\ deviceCloseFuncs' = deviceCloseFuncs \o << << d, "Close" >>, << d, "Shutdown" >> >>
    /\ devInfoPc' = [devInfoPc EXCEPT ![d] = "Expose"]
    /\ UNCHANGED << senderPc, allDevicesSentOn, devInfoQueue, eventQueue,
                    receivedDevices, receivedButNotReadyDevices, allDevicesReceivedCtx,
                    allDevicesReadyCtx, hooks, onAllDevicesReceived, migrateFromPc,
                    atReturn, dirtyLists, notMigrateFromVars, envVars, waitVars, teardownPc,
                    deviceCloseFuncsLock, closeFuncs, closeCalls, closeErrs,
                    internalCtxCancelled, errs, sessionLog >>

\* The device node is made and hooks.OnDeviceExposed fires (peer.go:348-373).
ExposeDevice(d) ==
    /\ d \in streams
    /\ devInfoPc[d] = "Expose"
    /\ hooks' = [hooks EXCEPT ![d] = Append(@, "OnDeviceExposed")]
    /\ devInfoPc' = [devInfoPc EXCEPT ![d] = "Done"]
    /\ UNCHANGED << senderPc, allDevicesSentOn, devInfoQueue, eventQueue,
                    receivedDevices, receivedButNotReadyDevices, allDevicesReceivedCtx,
                    allDevicesReadyCtx, onAllDevicesReceived, migrateFromPc,
                    atReturn, dirtyLists, notPeerVars >>

\* The callback of from.HandleEvent for the next event of a stream
\* (peer.go:396-426).
HandleEvent(d) ==
    /\ d \in streams
    /\ eventQueue[d] # << >>
    /\ eventQueue' = [eventQueue EXCEPT ![d] = Tail(@)]
    /\ LET e == Head(eventQueue[d])
       IN  CASE e = "AllDevicesSent" ->
                  /\ allDevicesReceivedCtx' = TRUE
                  /\ onAllDevicesReceived' = onAllDevicesReceived + 1
                  /\ UNCHANGED << receivedButNotReadyDevices, allDevicesReadyCtx, hooks >>
             [] e = "TransferAuthority" ->
                  /\ receivedButNotReadyDevices' = receivedButNotReadyDevices - 1
                  /\ allDevicesReadyCtx' =
                        (allDevicesReadyCtx \/ receivedButNotReadyDevices - 1 <= 0)
                  /\ hooks' = [hooks EXCEPT ![d] = Append(@, "OnDeviceAuthorityReceived")]
                  /\ UNCHANGED << allDevicesReceivedCtx, onAllDevicesReceived >>
             [] OTHER ->
                  /\ hooks' = [hooks EXCEPT ![d] = Append(@, "OnDeviceMigrationCompleted")]
                  /\ UNCHANGED << receivedButNotReadyDevices, allDevicesReadyCtx,
                                  allDevicesReceivedCtx, onAllDevicesReceived >>
    /\ UNCHANGED << senderPc, allDevicesSentOn, devInfoQueue, devInfoPc,
                    receivedDevices, migrateFromPc, atReturn, dirtyLists, notPeerVars >>

\* internalCtx is derived from ctx and cancelled by cancel() (peer.go:222-228).
InternalCtxDone == ctxCancelled \/ internalCtxCancelled

\* allDevicesReceivedCtx is derived from ctx (peer.go:206).
AllDevicesReceivedCtxDone == ctxCancelled \/ allDevicesReceivedCtx

\* allDevicesReadyCtx is derived from ctx (peer.go:209).
AllDevicesReadyCtxDone == ctxCancelled \/ allDevicesReadyCtx

\* protocolCtx is derived from ctx (peer.go:213).
ProtocolCtxDone == ctxCancelled \/ protocolCtxCancelled

\* The first select of MigrateFrom takes the case of allDevicesReceivedCtx
\* (peer.go:506-511).
WaitAllDevicesReceived ==
    /\ migrateFromPc = "WaitAllDevicesReceived"
    /\ AllDevicesReceivedCtxDone
    /\ migrateFromPc' = "Stage1"
    /\ UNCHANGED << senderPc, allDevicesSentOn, devInfoQueue, eventQueue, devInfoPc,
                    receivedDevices, receivedButNotReadyDevices, allDevicesReceivedCtx,
                    allDevicesReadyCtx, hooks, onAllDevicesReceived, atReturn, dirtyLists, notPeerVars >>

\* The devices that were not received are set up locally, which is left
\* to do in the source (peer.go:513-575).
Stage1 ==
    /\ migrateFromPc = "Stage1"
    /\ migrateFromPc' = "WaitAllDevicesReady"
    /\ UNCHANGED << senderPc, allDevicesSentOn, devInfoQueue, eventQueue, devInfoPc,
                    receivedDevices, receivedButNotReadyDevices, allDevicesReceivedCtx,
                    allDevicesReadyCtx, hooks, onAllDevicesReceived, atReturn, dirtyLists, notPeerVars >>

\* The devices whose authority event has been handled.
AuthorityReceived == {d \in Devices :
    \E i \in 1 .. Len(hooks[d]) : hooks[d][i] = "OnDeviceAuthorityReceived"}

\* The second select of MigrateFrom takes the case of allDevicesReadyCtx;
\* Resume is set and MigrateFrom returns, its deferred cancel() running
\* (peer.go:577-599, 228).
WaitAllDevicesReady ==
    /\ migrateFromPc = "WaitAllDevicesReady"
    /\ AllDevicesReadyCtxDone
    /\ migrateFromPc' = "Returned"
    /\ atReturn' = [returned |-> TRUE,
                    withoutAuthority |-> receivedDevices \ AuthorityReceived,
                    cancelled |-> sessionLog.cancelledBeforeReady,
                    errs |-> errs]
    /\ internalCtxCancelled' = TRUE
    /\ UNCHANGED << senderPc, allDevicesSentOn, devInfoQueue, eventQueue, devInfoPc,
                    receivedDevices, receivedButNotReadyDevices, allDevicesReceivedCtx,
                    allDevicesReadyCtx, hooks, onAllDevicesReceived, dirtyLists, notMigrateFromVars,
                    envVars, waitVars, closeVars, errs, sessionLog >>

\* The sending peer sends a DirtyList on a stream, after the DevInfo of the
\* stream and before its Completed.
PeerSendDirtyList(d) ==
    /\ d \in streams
    /\ transport = "Open"
    /\ senderPc[d] \in {"TransferAuthority", "Completed"}
    /\ dirtyLists[d].sent < MaxDirtyLists
    /\ dirtyLists' = [dirtyLists EXCEPT ![d].sent = @ + 1, ![d].queued = @ + 1]
    /\ UNCHANGED << senderPc, allDevicesSentOn, devInfoQueue, eventQueue, devInfoPc,
                    receivedDevices, receivedButNotReadyDevices, allDevicesReceivedCtx,
                    allDevicesReadyCtx, hooks, onAllDevicesReceived, migrateFromPc,
                    atReturn, notPeerVars >>

\* What the callback of from.HandleDirtyList can read in local
\* (peer.go:430): nil until the DevInfo callback is at line 308, the
\* waiting cache after it. The variable is written and read without
\* synchronisation, so while the DevInfo callback is between lines 299 and
\* 341 the callback reads either.
LocalAssigned(d) ==
    CASE devInfoPc[d] \in {"Register", "Expose", "Done"} -> {TRUE}
      [] devInfoPc[d] = "Init" -> {TRUE, FALSE}
      [] OTHER -> {FALSE}

\* The callback of from.HandleDirtyList for the next DirtyList of a stream
\* (peer.go:428-436): local.DirtyBlocks(blocks) if local is not nil.
HandleDirtyList(d) ==
    /\ d \in streams
    /\ dirtyLists[d].queued > 0
    /\ \E assigned \in LocalAssigned(d) :
          dirtyLists' = [dirtyLists EXCEPT
                            ![d].queued = @ - 1,
                            ![d].applied = IF assigned THEN @ + 1 ELSE @,
                            ![d].dropped = IF assigned THEN @ ELSE @ + 1]
    /\ UNCHANGED << senderPc, allDevicesSentOn, devInfoQueue, eventQueue, devInfoPc,
                    receivedDevices, receivedButNotReadyDevices, allDevicesReceivedCtx,
                    allDevicesReadyCtx, hooks, onAllDevicesReceived, migrateFromPc,
                    atReturn, notPeerVars >>

StreamStep(d) ==
    \/ PeerSendDevInfo(d)
    \/ PeerSendAllDevicesSent(d)
    \/ PeerSendTransferAuthority(d)
    \/ PeerSendCompleted(d)
    \/ HandleDevInfo(d)
    \/ AppendReceivedDevice(d)
    \/ AddReceivedButNotReady(d)
    \/ OnDeviceReceived(d)
    \/ InitDevice(d)
    \/ RegisterCloseFuncs(d)
    \/ ExposeDevice(d)
    \/ HandleEvent(d)

NextPeer ==
    \/ \E d \in Devices : StreamStep(d)
    \/ WaitAllDevicesReceived
    \/ Stage1
    \/ WaitAllDevicesReady

(***************************************************************************)
(* Part III: the NeedAt and DontNeedAt callbacks of the source             *)
(* (cmd/drafter-silo-serve/main.go:646-680). A hint of the receiving peer  *)
(* carries an offset inside the device and a positive length; a hint of    *)
(* any peer carries any offset and any length. The 64 bit integers of the  *)
(* code are integers of WordBits bits here, the 32 bit length is narrower. *)
(***************************************************************************)

\* Width of int, int64 and uint64, scaled down.
WordBits == 6

Word == 2 ^ WordBits

IntMin == -(Word \div 2)

IntMax == (Word \div 2) - 1

\* uint64(x): the conversion of a signed value, and the wrap of an unsigned result.
ToUint(x) == x % Word

\* int(u): the conversion of an unsigned value, and the wrap of a signed result.
ToInt(x) == IF x % Word > IntMax THEN (x % Word) - Word ELSE x % Word

\* The / of Go on signed integers, which truncates towards zero.
GoDiv(a, b) == IF a >= 0 THEN a \div b ELSE -((-a) \div b)

HintOffsets == 0 .. (HintSize - 1)

HintLengths == 1 .. MaxHintLength

\* The block indices the orderer may be called with.
HintBlocks == 0 .. HintSize

\* The offsets and lengths a peer can put into a hint.
AnyHintOffsets == IntMin .. IntMax

AnyHintLengths == (-MaxHintLength) .. MaxHintLength

\* The values of the loop variable b.
HintIndices == IntMin .. IntMax

NoCalls == [b \in HintIndices |-> 0]

\* totalBlocks (main.go:338).
TotalBlocks == (HintSize + HintBlockSize - 1) \div HintBlockSize

InitHints ==
    /\ hintPc = "Idle"
    /\ hintOffset = 0
    /\ hintLength = 1
    /\ hintB = 0
    /\ hintEndBlock = 0
    /\ prioritised = NoCalls
    /\ removed = NoCalls

\* endOffset, clamped to the size of the storage (main.go:649-652, 667-670).
EndOffset(offset, length) ==
    IF ToUint(ToInt(offset + length)) > HintSize
    THEN HintSize
    ELSE ToUint(ToInt(offset + length))

\* Faulty variant: the start block of DontNeedAt, an offset divided by the
\* size of the storage.
StartBlockBySize(offset) == offset \div HintSize

\* startBlock of NeedAt (main.go:654).
NeedAtStartBlock(offset) == GoDiv(offset, HintBlockSize)

\* endBlock of NeedAt (main.go:655).
NeedAtEndBlock(endOffset) == ToInt(ToInt(ToUint(endOffset - 1) \div HintBlockSize) + 1)

\* startBlock of DontNeedAt (main.go:672).
DontNeedAtStartBlock(offset) == GoDiv(offset, HintSize)

\* endBlock of DontNeedAt (main.go:673).
DontNeedAtEndBlock(endOffset) == ToInt(ToInt(ToUint(endOffset - 1) \div HintSize) + 1)

\* The callback of dst.HandleNeedAt is entered with a hint (main.go:647-655).
HandleNeedAt(offset, length) ==
    /\ hintPc \in {"Idle", "NeedAtReturned", "DontNeedAtReturned"}
    /\ hintPc' = "NeedAt"
    /\ hintOffset' = offset
    /\ hintLength' = length
    /\ hintB' = NeedAtStartBlock(offset)
    /\ hintEndBlock' = NeedAtEndBlock(EndOffset(offset, length))
    /\ prioritised' = NoCalls
    /\ removed' = NoCalls
    /\ UNCHANGED notHintVars

\* One round of the loop of the NeedAt callback (main.go:656-658).
PrioritiseBlock ==
    /\ hintPc = "NeedAt"
    /\ IF hintB < hintEndBlock
       THEN /\ prioritised' = [prioritised EXCEPT ![hintB] = @ + 1]
            /\ hintB' = hintB + 1
            /\ UNCHANGED hintPc
       ELSE /\ hintPc' = "NeedAtReturned"
            /\ UNCHANGED << prioritised, hintB >>
    /\ UNCHANGED << hintOffset, hintLength, hintEndBlock, removed, notHintVars >>

\* The callback of dst.HandleDontNeedAt is entered with a hint
\* (main.go:665-673).
HandleDontNeedAt(offset, length) ==
    /\ hintPc \in {"Idle", "NeedAtReturned", "DontNeedAtReturned"}
    /\ hintPc' = "DontNeedAt"
    /\ hintOffset' = offset
    /\ hintLength' = length
    /\ hintB' = DontNeedAtStartBlock(offset)
    /\ hintEndBlock' = DontNeedAtEndBlock(EndOffset(offset, length))
    /\ prioritised' = NoCalls
    /\ removed' = NoCalls
    /\ UNCHANGED notHintVars

\* One round of the loop of the DontNeedAt callback (main.go:674-676).
Remove ==
    /\ hintPc = "DontNeedAt"
    /\ IF hintB < hintEndBlock
       THEN /\ removed' = [removed EXCEPT ![hintB] = @ + 1]
            /\ hintB' = hintB + 1
            /\ UNCHANGED hintPc
       ELSE /\ hintPc' = "DontNeedAtReturned"
            /\ UNCHANGED << removed, hintB >>
    /\ UNCHANGED << hintOffset, hintLength, hintEndBlock, prioritised, notHintVars >>

NextHints ==
    \/ \E offset \in HintOffsets, length \in HintLengths : HandleNeedAt(offset, length)
    \/ PrioritiseBlock
    \/ \E offset \in HintOffsets, length \in HintLengths : HandleDontNeedAt(offset, length)
    \/ Remove

\* The NeedAt callback with the hints of any peer.
NextAnyHints ==
    \/ \E offset \in AnyHintOffsets, length \in AnyHintLengths : HandleNeedAt(offset, length)
    \/ PrioritiseBlock

(***************************************************************************)
(* Part IV: the session of Peer.MigrateFrom: the caller's context, the end *)
(* of the transport, migratedPeer.Wait, migratedPeer.Close and the         *)
(* goroutine that tears the session down (pkg/roles/peer.go:204-229,       *)
(* 439-511). The panic handler of the repository is not part of the        *)
(* sources at hand: a panic is taken to join its error into the result and *)
(* to cancel the internal context.                                         *)
(***************************************************************************)

InitSession ==
    /\ ctxCancelled = FALSE
    /\ transport = "Open"
    /\ hypervisorCtx = FALSE
    /\ internalCtxCancelled = FALSE
    /\ protocolCtxCancelled = FALSE
    /\ errs = {}
    /\ waitPc = "NotStarted"
    /\ waitErr = "none"
    /\ onAllMigrationsCompleted = 0
    /\ teardownPc = "Select"
    /\ deviceCloseFuncsLock = "Free"
    /\ deviceCloseFuncs = << >>
    /\ closeFuncs = << >>
    /\ closeCalls = << >>
    /\ closeErrs = {}
    /\ sessionLog = [ endedEarly |-> FALSE,          \* the transport ended before every Completed
                      completedMissing |-> {},       \* devices not completed at OnAllMigrationsCompleted
                      cancelledBeforeReady |-> FALSE,    \* ctx was cancelled before all devices were ready
                      deferred |-> {},               \* the close functions Close found registered
                      failed |-> {} ]                \* the calls of Close that returned an error

\* Faulty variant: only the first error is kept.
JoinKeepsFirst(es, e) == IF es = {} THEN {e} ELSE es

\* errors.Join(errs, err) (peer.go:455, 460, 470).
Join(es, e) == es \cup {e}

\* The caller cancels ctx.
CancelCtx ==
    /\ ~ctxCancelled
    /\ ctxCancelled' = TRUE
    /\ sessionLog' = [sessionLog EXCEPT !.cancelledBeforeReady = ~allDevicesReadyCtx]
    /\ UNCHANGED << streams, unknownName, transport, hypervisorCtx, waitVars, closeVars, internalCtxCancelled,
                    errs, peerVars, dirtyLists, notMigrateFromVars >>

\* The readers end, cleanly at a frame boundary or with an error.
TransportEnds(how) ==
    /\ transport = "Open"
    /\ transport' = how
    /\ sessionLog' = [sessionLog EXCEPT !.endedEarly =
                        \E d \in receivedDevices : senderPc[d] # "Done"]
    /\ UNCHANGED << streams, unknownName, ctxCancelled, hypervisorCtx, waitVars, closeVars, internalCtxCancelled,
                    errs, peerVars, dirtyLists, notMigrateFromVars >>

\* The hypervisor stops: hypervisorCtx is done.
HypervisorEnds ==
    /\ ~hypervisorCtx
    /\ hypervisorCtx' = TRUE
    /\ UNCHANGED << streams, unknownName, ctxCancelled, transport, waitVars, closeVars, internalCtxCancelled,
                    errs, sessionLog, peerVars, dirtyLists, notMigrateFromVars >>

\* A select of MigrateFrom takes the case of internalCtx and panics with
\* its error (peer.go:506-508, 577-579); the deferred calls cancel the
\* contexts of MigrateFrom (peer.go:207-229).
PanicOnInternalCtx ==
    /\ migrateFromPc \in {"WaitAllDevicesReceived", "WaitAllDevicesReady"}
    /\ InternalCtxDone
    /\ migrateFromPc' = "Panicked"
    /\ errs' = JoinPanic(errs, "Canceled")
    /\ internalCtxCancelled' = TRUE
    /\ allDevicesReceivedCtx' = TRUE
    /\ allDevicesReadyCtx' = TRUE
    /\ UNCHANGED << senderPc, allDevicesSentOn, devInfoQueue, eventQueue, devInfoPc,
                    receivedDevices, receivedButNotReadyDevices, hooks,
                    onAllDevicesReceived, atReturn, dirtyLists, notMigrateFromVars,
                    envVars, waitVars, closeVars, sessionLog >>

\* migratedPeer.Wait is called for the first time, by the goroutine of
\* peer.go:479-483: pro.Handle() runs (peer.go:439-442).
WaitBegin ==
    /\ waitPc = "NotStarted"
    /\ waitPc' = "Handle"
    /\ UNCHANGED << protocolCtxCancelled, waitErr, onAllMigrationsCompleted, envVars,
                    closeVars, internalCtxCancelled, errs, sessionLog, peerVars, dirtyLists, notMigrateFromVars >>

\* What pro.Handle() can return: the end of the readers, or the error of
\* its context.
HandleResults ==
    (IF transport # "Open" THEN {transport} ELSE {})
        \cup (IF ProtocolCtxDone THEN {"Canceled"} ELSE {})

\* err != nil && !errors.Is(err, io.EOF) (peer.go:442).
IsWaitError(r) == r # "EOF"

\* The devices received whose OnDeviceMigrationCompleted has not fired.
NotCompleted == {d \in receivedDevices :
    \A i \in 1 .. Len(hooks[d]) : hooks[d][i] # "OnDeviceMigrationCompleted"}

\* pro.Handle() returns and Wait with it (peer.go:440-450); the goroutine
\* of peer.go:479-483 panics with the error of Wait.
ProHandleReturns ==
    /\ waitPc = "Handle"
    /\ \E r \in HandleResults :
          IF IsWaitError(r)
          THEN /\ waitErr' = r
               /\ errs' = JoinPanic(errs, r)
               /\ internalCtxCancelled' = TRUE
               /\ UNCHANGED << onAllMigrationsCompleted, sessionLog >>
          ELSE /\ waitErr' = "nil"
               /\ onAllMigrationsCompleted' = onAllMigrationsCompleted + 1
               /\ sessionLog' = [sessionLog EXCEPT !.completedMissing = NotCompleted]
               /\ UNCHANGED << errs, internalCtxCancelled >>
    /\ waitPc' = "Done"
    /\ protocolCtxCancelled' = TRUE
    /\ UNCHANGED << envVars, closeVars, peerVars, dirtyLists, notMigrateFromVars >>

\* The teardown goroutine takes the case of internalCtx and calls Close
\* (peer.go:487-492).
TeardownOnInternalCtx ==
    /\ teardownPc = "Select"
    /\ InternalCtxDone
    /\ teardownPc' = "RunnerClose"
    /\ UNCHANGED << deviceCloseFuncsLock, deviceCloseFuncs, closeFuncs, closeCalls,
                    closeErrs, envVars, waitVars, internalCtxCancelled, errs, sessionLog,
                    peerVars, dirtyLists, notMigrateFromVars >>

\* The teardown goroutine takes the case of allDevicesReadyCtx and waits
\* for the hypervisor to stop (peer.go:495-496).
TeardownOnAllDevicesReady ==
    /\ teardownPc = "Select"
    /\ AllDevicesReadyCtxDone
    /\ teardownPc' = "AwaitHypervisor"
    /\ UNCHANGED << deviceCloseFuncsLock, deviceCloseFuncs, closeFuncs, closeCalls,
                    closeErrs, envVars, waitVars, internalCtxCancelled, errs, sessionLog,
                    peerVars, dirtyLists, notMigrateFromVars >>

\* <-hypervisorCtx.Done(), then Close is called (peer.go:496-498).
AwaitHypervisor ==
    /\ teardownPc = "AwaitHypervisor"
    /\ hypervisorCtx
    /\ teardownPc' = "RunnerClose"
    /\ UNCHANGED << deviceCloseFuncsLock, deviceCloseFuncs, closeFuncs, closeCalls,
                    closeErrs, envVars, waitVars, internalCtxCancelled, errs, sessionLog,
                    peerVars, dirtyLists, notMigrateFromVars >>

\* The errors of Close after a call that went well or not.
Joined(es, call, ok) == IF ok THEN es ELSE Join(es, call)

\* The calls that failed, kept apart from what Close makes of them.
Failed(log, call, ok) == IF ok THEN log ELSE [log EXCEPT !.failed = @ \cup {call}]

\* Close closes the runner first (peer.go:453-456).
RunnerClose ==
    /\ teardownPc = "RunnerClose"
    /\ \E ok \in BOOLEAN :
          /\ closeErrs' = Joined(closeErrs, << "runner", "Close" >>, ok)
          /\ sessionLog' = Failed(sessionLog, << "runner", "Close" >>, ok)
    /\ closeCalls' = Append(closeCalls, << "runner", "Close" >>)
    /\ teardownPc' = "Lock"
    /\ UNCHANGED << deviceCloseFuncsLock, deviceCloseFuncs, closeFuncs,
                    envVars, waitVars, internalCtxCancelled, errs,
                    peerVars, dirtyLists, notMigrateFromVars >>

\* Faulty variant: the close functions run in the order of registration.
InRegistrationOrder(q) == q

\* The deferred calls run last in, first out.
Reverse(q) == [i \in 1 .. Len(q) |-> q[Len(q) + 1 - i]]

\* Close takes the lock and defers a call of each function of
\* deviceCloseFuncs (peer.go:464-473).
DeferCloseFuncs ==
    /\ teardownPc = "Lock"
    /\ deviceCloseFuncsLock = "Free"
    /\ deviceCloseFuncsLock' = "Close"
    /\ closeFuncs' = Reverse(deviceCloseFuncs)
    /\ sessionLog' = [sessionLog EXCEPT !.deferred =
                        {deviceCloseFuncs[i] : i \in 1 .. Len(deviceCloseFuncs)}]
    /\ teardownPc' = "CloseFuncs"
    /\ UNCHANGED << deviceCloseFuncs, closeCalls, closeErrs,
                    envVars, waitVars, internalCtxCancelled, errs,
                    peerVars, dirtyLists, notMigrateFromVars >>

\* Close returns: a deferred close function runs (peer.go:468-472).
RunCloseFunc ==
    /\ teardownPc = "CloseFuncs"
    /\ closeFuncs # << >>
    /\ \E ok \in BOOLEAN :
          /\ closeErrs' = Joined(closeErrs, Head(closeFuncs), ok)
          /\ sessionLog' = Failed(sessionLog, Head(closeFuncs), ok)
    /\ closeCalls' = Append(closeCalls, Head(closeFuncs))
    /\ closeFuncs' = Tail(closeFuncs)
    /\ UNCHANGED << teardownPc, deviceCloseFuncsLock, deviceCloseFuncs,
                    envVars, waitVars, internalCtxCancelled, errs,
                    peerVars, dirtyLists, notMigrateFromVars >>

\* The deferred Unlock (peer.go:465).
UnlockCloseFuncs ==
    /\ teardownPc = "CloseFuncs"
    /\ closeFuncs = << >>
    /\ deviceCloseFuncsLock' = "Free"
    /\ teardownPc' = "Wait"
    /\ UNCHANGED << deviceCloseFuncs, closeFuncs, closeCalls, closeErrs,
                    envVars, waitVars, internalCtxCancelled, errs, sessionLog,
                    peerVars, dirtyLists, notMigrateFromVars >>

\* The deferred migratedPeer.Wait(), which gives what the first call gave
\* (peer.go:458-462); Close returns and the teardown goroutine panics with
\* its error, if any (peer.go:490-492, 498-500).
CloseWait ==
    /\ teardownPc = "Wait"
    /\ waitPc = "Done"
    /\ closeErrs' = Joined(closeErrs, << "peer", "Wait" >>, waitErr = "nil")
    /\ sessionLog' = Failed(sessionLog, << "peer", "Wait" >>, waitErr = "nil")
    /\ closeCalls' = Append(closeCalls, << "peer", "Wait" >>)
    /\ errs' = IF closeErrs' # {} THEN JoinPanic(errs, "Close") ELSE errs
    /\ internalCtxCancelled' = (internalCtxCancelled \/ closeErrs' # {})
    /\ teardownPc' = "Closed"
    /\ UNCHANGED << deviceCloseFuncsLock, deviceCloseFuncs, closeFuncs,
                    envVars, waitVars, peerVars, dirtyLists, notMigrateFromVars >>

NextSession ==
    \/ NextPeer
    \/ CancelCtx
    \/ \E how \in {"EOF", "Broken"} : TransportEnds(how)
    \/ HypervisorEnds
    \/ PanicOnInternalCtx
    \/ WaitBegin
    \/ ProHandleReturns
    \/ TeardownOnInternalCtx
    \/ TeardownOnAllDevicesReady
    \/ AwaitHypervisor
    \/ RunnerClose
    \/ DeferCloseFuncs
    \/ RunCloseFunc
    \/ UnlockCloseFuncs
    \/ CloseWait

(***************************************************************************)
(* Part VI: migratedPeer.Close called by the caller of MigrateFrom, once   *)
(* MigrateFrom has returned to it, next to the call of the teardown        *)
(* goroutine (pkg/roles/peer.go:452-476).                                  *)
(***************************************************************************)
InitCaller ==
    /\ callerPc = "Idle"
    /\ callerCloseFuncs = << >>
    /\ callerCloseErrs = {}

\* What a step of the caller's Close leaves alone.
notCallerVars == << srcVars, hintVars, agentVars, natVars, peerVars, envVars, waitVars,
                    internalCtxCancelled, errs, sessionLog, teardownPc, deviceCloseFuncs,
                    closeFuncs, closeErrs >>

\* The caller calls migratedPeer.Close.
CallerClose ==
    /\ callerPc = "Idle"
    /\ migrateFromPc \in {"Returned", "Panicked"}
    /\ callerPc' = "RunnerClose"
    /\ UNCHANGED << callerCloseFuncs, callerCloseErrs, closeCalls, deviceCloseFuncsLock,
                    notCallerVars >>

\* peer.go:453-456.
CallerRunnerClose ==
    /\ callerPc = "RunnerClose"
    /\ \E ok \in BOOLEAN :
          callerCloseErrs' = Joined(callerCloseErrs, << "runner", "Close" >>, ok)
    /\ closeCalls' = Append(closeCalls, << "runner", "Close" >>)
    /\ callerPc' = "Lock"
    /\ UNCHANGED << callerCloseFuncs, deviceCloseFuncsLock, notCallerVars >>

\* peer.go:464-473.
CallerDeferCloseFuncs ==
    /\ callerPc = "Lock"
    /\ deviceCloseFuncsLock = "Free"
    /\ deviceCloseFuncsLock' = "Caller"
    /\ callerCloseFuncs' = Reverse(deviceCloseFuncs)
    /\ callerPc' = "CloseFuncs"
    /\ UNCHANGED << callerCloseErrs, closeCalls, notCallerVars >>

\* peer.go:468-472.
CallerRunCloseFunc ==
    /\ callerPc = "CloseFuncs"
    /\ callerCloseFuncs # << >>
    /\ \E ok \in BOOLEAN :
          callerCloseErrs' = Joined(callerCloseErrs, Head(callerCloseFuncs), ok)
    /\ closeCalls' = Append(closeCalls, Head(callerCloseFuncs))
    /\ callerCloseFuncs' = Tail(callerCloseFuncs)
    /\ UNCHANGED << callerPc, deviceCloseFuncsLock, notCallerVars >>

\* peer.go:465.
CallerUnlockCloseFuncs ==
    /\ callerPc = "CloseFuncs"
    /\ callerCloseFuncs = << >>
    /\ deviceCloseFuncsLock' = "Free"
    /\ callerPc' = "Wait"
    /\ UNCHANGED << callerCloseFuncs, callerCloseErrs, closeCalls, notCallerVars >>

\* peer.go:458-462; Close returns to the caller.
CallerCloseWait ==
    /\ callerPc = "Wait"
    /\ waitPc = "Done"
    /\ callerCloseErrs' = Joined(callerCloseErrs, << "peer", "Wait" >>, waitErr = "nil")
    /\ closeCalls' = Append(closeCalls, << "peer", "Wait" >>)
    /\ callerPc' = "Closed"
    /\ UNCHANGED << callerCloseFuncs, deviceCloseFuncsLock, notCallerVars >>

\* The session of a caller that leaves ctx alone and calls Close.
NextCaller ==
    \/ NextPeer
    \/ \E how \in {"EOF", "Broken"} : TransportEnds(how)
    \/ HypervisorEnds
    \/ PanicOnInternalCtx
    \/ WaitBegin
    \/ ProHandleReturns
    \/ TeardownOnInternalCtx
    \/ TeardownOnAllDevicesReady
    \/ AwaitHypervisor
    \/ RunnerClose
    \/ DeferCloseFuncs
    \/ RunCloseFunc
    \/ UnlockCloseFuncs
    \/ CloseWait
    \/ CallerClose
    \/ CallerRunnerClose
    \/ CallerDeferCloseFuncs
    \/ CallerRunCloseFunc
    \/ CallerUnlockCloseFuncs
    \/ CallerCloseWait

(***************************************************************************)
(* Part VII: CreateNAT and the pool of namespaces (pkg/roles/nat.go).      *)
(* CreateNAT makes NumNamespaces namespaces in a loop, each step under the *)
(* lock of what it changes; a background goroutine calls Close when the    *)
(* context of the goroutine manager is done, or, once every namespace is   *)
(* made, when ctx is done; the caller may call Close, ClaimNamespace and   *)
(* ReleaseNamespace once CreateNAT has returned.                           *)
(***************************************************************************)
NamespaceIDs == 0 .. (NumNamespaces - 1)

\* An ID that CreateNAT never gives to a namespace.
UnknownNamespace == NumNamespaces

\* The callers of namespaces.Close.
Closers == {"Background", "Caller"}

InitNat ==
    /\ natCtx = FALSE
    /\ natStopped = FALSE
    /\ natPc = "HostVeth"
    /\ natI = 0
    /\ ready = FALSE
    /\ hostVethsLock = "Free"
    /\ namespaceVethsLock = "Free"
    /\ claimableNamespacesLock = "Free"
    /\ hostVeths = {}
    /\ namespaceVeths = {}
    /\ claimableNamespaces = {}
    /\ claimed = {}
    /\ natClosed = FALSE
    /\ natClosePc = [c \in Closers |-> IF c = "Background" THEN "Select" ELSE "Idle"]
    /\ natCloseCalls = 0
    /\ natErrs = {}
    /\ natLog = [ opened |-> {},                        \* namespaces whose Open() succeeded
                  nsClosed |-> [id \in NamespaceIDs |-> 0],    \* calls of namespace.Close() by Close
                  removeNAT |-> 0,                      \* calls of network.RemoveNAT
                  closesDone |-> 0,                     \* calls of Close that have returned
                  tookReady |-> FALSE,                  \* the background goroutine took the case of ready
                  cancelledInLoop |-> FALSE,            \* ctx was done while the loop ran
                  openedAfterClear |-> FALSE,           \* a namespace was opened after Close emptied the map
                  held |-> [id \in NamespaceIDs |-> 0],        \* claims of an ID not yet released
                  claims |-> 0,                         \* calls of ClaimNamespace
                  claimWrong |-> FALSE,                 \* a ClaimNamespace gave the error with a free namespace, or none with all claimed
                  claimFailed |-> FALSE,                \* a ClaimNamespace gave ErrAllNamespacesClaimed with a pool that was not empty
                  claimAfterClose |-> "none",           \* what the last ClaimNamespace after a Close gave
                  unknownReleased |-> FALSE,            \* a ReleaseNamespace of an ID not in the map was made
                  unknownChanged |-> FALSE ]            \* and it changed the map

\* goroutineManager.Context() is done: it is a child of ctx that
\* StopAllGoroutines cancels (nat.go:84-90).
NatInternalCtxDone == natCtx \/ natStopped

\* Faulty variant: the loop does not look at ctx.
LoopIgnoresCtx == FALSE

\* The select on ctx.Done() at the head of each step of the loop
\* (nat.go:226-232, 257-263, 288-294).
LoopSeesCtxDone == natCtx

\* ctx is cancelled.
NatCancelCtx ==
    /\ ~natCtx
    /\ natCtx' = TRUE
    /\ natLog' = [natLog EXCEPT !.cancelledInLoop = natPc \in {"HostVeth", "NamespaceVeth", "Namespace"}]
    /\ UNCHANGED << natStopped, natPc, natI, ready, hostVethsLock, namespaceVethsLock,
                    claimableNamespacesLock, hostVeths, namespaceVeths, claimableNamespaces,
                    claimed, natClosed, natClosePc, natCloseCalls, natErrs, notNatVars >>

\* A step of the loop panics: the deferred calls of CreateNAT collect the
\* error and stop the goroutines (nat.go:89-91).
NatPanics(e) ==
    /\ natPc' = "Panicked"
    /\ natErrs' = natErrs \cup {e}
    /\ natStopped' = TRUE

\* The first step of a round: a pair of host addresses (nat.go:221-250).
NatGetHostVeth ==
    /\ natPc = "HostVeth"
    /\ natI < NumNamespaces
    /\ hostVethsLock = "Free"
    /\ IF LoopSeesCtxDone
       THEN NatPanics("ErrCouldNotOpenHostVethIPs") /\ UNCHANGED hostVeths
       ELSE \E ok \in BOOLEAN :
               IF ok
               THEN /\ hostVeths' = hostVeths \cup {natI}
                    /\ natPc' = "NamespaceVeth"
                    /\ UNCHANGED << natErrs, natStopped >>
               ELSE NatPanics("ErrCouldNotOpenHostVethIPs") /\ UNCHANGED hostVeths
    /\ UNCHANGED << natCtx, natI, ready, hostVethsLock, namespaceVethsLock,
                    claimableNamespacesLock, namespaceVeths, claimableNamespaces,
                    claimed, natClosed, natClosePc, natCloseCalls, natLog, notNatVars >>

\* The second step: an address of the namespace (nat.go:252-281).
NatGetNamespaceVeth ==
    /\ natPc = "NamespaceVeth"
    /\ namespaceVethsLock = "Free"
    /\ IF LoopSeesCtxDone
       THEN NatPanics("ErrCouldNotOpenNamespaceVethIPs") /\ UNCHANGED namespaceVeths
       ELSE \E ok \in BOOLEAN :
               IF ok
               THEN /\ namespaceVeths' = namespaceVeths \cup {natI}
                    /\ natPc' = "Namespace"
                    /\ UNCHANGED << natErrs, natStopped >>
               ELSE NatPanics("ErrCouldNotOpenNamespaceVethIPs") /\ UNCHANGED namespaceVeths
    /\ UNCHANGED << natCtx, natI, ready, hostVethsLock, namespaceVethsLock,
                    claimableNamespacesLock, hostVeths, claimableNamespaces,
                    claimed, natClosed, natClosePc, natCloseCalls, natLog, notNatVars >>

\* The third step: the namespace is opened and put into the map; a
\* namespace whose Open() fails is closed on the spot (nat.go:283-331).
NatOpenNamespace ==
    /\ natPc = "Namespace"
    /\ claimableNamespacesLock = "Free"
    /\ IF LoopSeesCtxDone
       THEN /\ NatPanics("ErrCouldNotOpenNamespace")
            /\ UNCHANGED << claimableNamespaces, natI, natLog >>
       ELSE \E ok \in BOOLEAN :
               IF ok
               THEN /\ claimableNamespaces' = claimableNamespaces \cup {natI}
                    /\ natLog' = [natLog EXCEPT
                                    !.opened = @ \cup {natI},
                                    !.openedAfterClear = @ \/ natLog.closesDone > 0
                                                           \/ \E c \in Closers : natClosePc[c] = "RemoveNAT"]
                    /\ natI' = natI + 1
                    /\ natPc' = "HostVeth"
                    /\ UNCHANGED << natErrs, natStopped >>
               ELSE /\ NatPanics("ErrCouldNotOpenNamespace")
                    /\ UNCHANGED << claimableNamespaces, natI, natLog >>
    /\ UNCHANGED << natCtx, ready, hostVethsLock, namespaceVethsLock,
                    claimableNamespacesLock, hostVeths, namespaceVeths,
                    claimed, natClosed, natClosePc, natCloseCalls, notNatVars >>

\* The loop is over: close(ready), CreateNAT returns and its deferred
\* calls stop the goroutines (nat.go:89-90, 335-337).
NatReturn ==
    /\ natPc = "HostVeth"
    /\ natI = NumNamespaces
    /\ ready' = TRUE
    /\ natPc' = "Returned"
    /\ natStopped' = TRUE
    /\ UNCHANGED << natCtx, natI, hostVethsLock, namespaceVethsLock,
                    claimableNamespacesLock, hostVeths, namespaceVeths, claimableNamespaces,
                    claimed, natClosed, natClosePc, natCloseCalls, natErrs, natLog, notNatVars >>

\* The background goroutine takes the case of the context of the goroutine
\* manager and calls Close (nat.go:199-203).
NatBackgroundOnInternalCtx ==
    /\ natClosePc["Background"] = "Select"
    /\ NatInternalCtxDone
    /\ natClosePc' = [natClosePc EXCEPT !["Background"] = "HostVeths"]
    /\ UNCHANGED << natCtx, natStopped, natPc, natI, ready, hostVethsLock, namespaceVethsLock,
                    claimableNamespacesLock, hostVeths, namespaceVeths, claimableNamespaces,
                    claimed, natClosed, natCloseCalls, natErrs, natLog, notNatVars >>

\* The background goroutine takes the case of ready (nat.go:206-207).
NatBackgroundOnReady ==
    /\ natClosePc["Background"] = "Select"
    /\ ready
    /\ natClosePc' = [natClosePc EXCEPT !["Background"] = "AwaitCtx"]
    /\ natLog' = [natLog EXCEPT !.tookReady = TRUE]
    /\ UNCHANGED << natCtx, natStopped, natPc, natI, ready, hostVethsLock, namespaceVethsLock,
                    claimableNamespacesLock, hostVeths, namespaceVeths, claimableNamespaces,
                    claimed, natClosed, natCloseCalls, natErrs, notNatVars >>

\* <-ctx.Done(), then Close is called (nat.go:207-211).
NatBackgroundAwaitCtx ==
    /\ natClosePc["Background"] = "AwaitCtx"
    /\ natCtx
    /\ natClosePc' = [natClosePc EXCEPT !["Background"] = "HostVeths"]
    /\ UNCHANGED << natCtx, natStopped, natPc, natI, ready, hostVethsLock, namespaceVethsLock,
                    claimableNamespacesLock, hostVeths, namespaceVeths, claimableNamespaces,
                    claimed, natClosed, natCloseCalls, natErrs, natLog, notNatVars >>

\* The caller of CreateNAT calls namespaces.Close.
NatCallerClose ==
    /\ natPc \in {"Returned", "Panicked"}
    /\ natClosePc["Caller"] = "Idle"
    /\ natCloseCalls < MaxCloseCalls
    /\ natCloseCalls' = natCloseCalls + 1
    /\ natClosePc' = [natClosePc EXCEPT !["Caller"] = "HostVeths"]
    /\ UNCHANGED << natCtx, natStopped, natPc, natI, ready, hostVethsLock, namespaceVethsLock,
                    claimableNamespacesLock, hostVeths, namespaceVeths, claimableNamespaces,
                    claimed, natClosed, natErrs, natLog, notNatVars >>

\* Close releases the pairs of host addresses under their lock, which it
\* keeps until it returns (nat.go:137-146).
CloseHostVeths(c) ==
    /\ natClosePc[c] = "HostVeths"
    /\ hostVethsLock = "Free"
    /\ hostVethsLock' = c
    /\ hostVeths' = {}
    /\ natClosePc' = [natClosePc EXCEPT ![c] = "NamespaceVeths"]
    /\ UNCHANGED << natCtx, natStopped, natPc, natI, ready, namespaceVethsLock,
                    claimableNamespacesLock, namespaceVeths, claimableNamespaces,
                    claimed, natClosed, natCloseCalls, natErrs, natLog, notNatVars >>

\* nat.go:148-157.
CloseNamespaceVeths(c) ==
    /\ natClosePc[c] = "NamespaceVeths"
    /\ namespaceVethsLock = "Free"
    /\ namespaceVethsLock' = c
    /\ namespaceVeths' = {}
    /\ natClosePc' = [natClosePc EXCEPT ![c] = "Namespaces"]
    /\ UNCHANGED << natCtx, natStopped, natPc, natI, ready, hostVethsLock,
                    claimableNamespacesLock, hostVeths, claimableNamespaces,
                    claimed, natClosed, natCloseCalls, natErrs, natLog, notNatVars >>

\* Close closes every namespace of the map and empties the map
\* (nat.go:159-172).
CloseNamespaces(c) ==
    /\ natClosePc[c] = "Namespaces"
    /\ claimableNamespacesLock = "Free"
    /\ claimableNamespacesLock' = c
    /\ natLog' = [natLog EXCEPT !.nsClosed =
                    [id \in NamespaceIDs |->
                        IF id \in claimableNamespaces THEN Cap(@[id]) ELSE @[id]]]
    /\ claimableNamespaces' = {}
    /\ claimed' = {}
    /\ natClosePc' = [natClosePc EXCEPT ![c] = "RemoveNAT"]
    /\ UNCHANGED << natCtx, natStopped, natPc, natI, ready, hostVethsLock,
                    namespaceVethsLock, hostVeths, namespaceVeths,
                    natClosed, natCloseCalls, natErrs, notNatVars >>

\* Faulty variant: the NAT is removed by every call of Close.
RemovesNATAlways == TRUE

\* if !closed (nat.go:177).
RemovesNAT == ~natClosed

\* The NAT is removed unless a call before has done it, the deferred
\* unlocks run and Close returns; the background goroutine panics with the
\* error of Close, if any (nat.go:135, 174-187, 201-203, 209-211).
CloseRemoveNAT(c) ==
    /\ natClosePc[c] = "RemoveNAT"
    /\ natClosed' = TRUE
    /\ natLog' = [natLog EXCEPT !.removeNAT = IF RemovesNAT THEN Cap(@) ELSE @,
                                !.closesDone = Cap(@)]
    /\ hostVethsLock' = "Free"
    /\ namespaceVethsLock' = "Free"
    /\ claimableNamespacesLock' = "Free"
    /\ natClosePc' = [natClosePc EXCEPT ![c] = IF c = "Background" THEN "Done" ELSE "Idle"]
    /\ \E ok \in BOOLEAN :
          natErrs' = IF ok \/ c # "Background" THEN natErrs
                     ELSE natErrs \cup {"ErrNATContextCancelled"}
    /\ UNCHANGED << natCtx, natStopped, natPc, natI, ready, hostVeths, namespaceVeths,
                    claimableNamespaces, claimed, natCloseCalls, notNatVars >>

\* Faulty variant: a namespace is given out whether or not it is claimed.
AnyNamespaceClaimable(id) == TRUE

\* !namespace.claimed (nat.go:363).
IsClaimable(id) == id \notin claimed

\* Namespaces.ClaimNamespace, called once CreateNAT has returned the pool:
\* the range over the map meets the namespaces in any order (nat.go:358-371).
ClaimNamespace ==
    /\ natPc \in {"Returned", "Panicked"}
    /\ claimableNamespacesLock = "Free"
    /\ \/ \E id \in claimableNamespaces :
             /\ IsClaimable(id)
             /\ claimed' = claimed \cup {id}
             /\ natLog' = [natLog EXCEPT
                            !.held = [@ EXCEPT ![id] = Cap(@)],
                            !.claims = Cap(@),
                            !.claimWrong = @ \/ claimableNamespaces \subseteq claimed,
                            !.claimAfterClose = IF natLog.closesDone > 0 THEN "id" ELSE @]
       \/ /\ \A id \in claimableNamespaces : ~IsClaimable(id)
          /\ claimed' = claimed
          /\ natLog' = [natLog EXCEPT
                            !.claims = Cap(@),
                            !.claimWrong = @ \/ ~(claimableNamespaces \subseteq claimed),
                            !.claimFailed = @ \/ claimableNamespaces # {},
                            !.claimAfterClose = IF natLog.closesDone > 0
                                                THEN "ErrAllNamespacesClaimed" ELSE @]
    /\ UNCHANGED << natCtx, natStopped, natPc, natI, ready, hostVethsLock, namespaceVethsLock,
                    claimableNamespacesLock, hostVeths, namespaceVeths, claimableNamespaces,
                    natClosed, natClosePc, natCloseCalls, natErrs, notNatVars >>

\* Namespaces.ReleaseNamespace (nat.go:343-356).
ReleaseNamespace(id) ==
    /\ natPc \in {"Returned", "Panicked"}
    /\ claimableNamespacesLock = "Free"
    /\ claimed' = IF id \in claimableNamespaces THEN claimed \ {id} ELSE claimed
    /\ natLog' = [natLog EXCEPT
                    !.held = [i \in NamespaceIDs |-> IF i = id THEN 0 ELSE @[i]],
                    !.unknownReleased = @ \/ id \notin claimableNamespaces,
                    !.unknownChanged = @ \/ (id \notin claimableNamespaces /\ claimed' # claimed)]
    /\ UNCHANGED << natCtx, natStopped, natPc, natI, ready, hostVethsLock, namespaceVethsLock,
                    claimableNamespacesLock, hostVeths, namespaceVeths, claimableNamespaces,
                    natClosed, natClosePc, natCloseCalls, natErrs, notNatVars >>

\* The steps of a call of Close.
CloseStep(c) ==
    \/ CloseHostVeths(c)
    \/ CloseNamespaceVeths(c)
    \/ CloseNamespaces(c)
    \/ CloseRemoveNAT(c)

NextNat ==
    \/ NatCancelCtx
    \/ NatGetHostVeth
    \/ NatGetNamespaceVeth
    \/ NatOpenNamespace
    \/ NatReturn
    \/ NatBackgroundOnInternalCtx
    \/ NatBackgroundOnReady
    \/ NatBackgroundAwaitCtx
    \/ NatCallerClose
    \/ \E c \in Closers : CloseStep(c)
    \/ ClaimNamespace
    \/ \E id \in NamespaceIDs \cup {UnknownNamespace} : ReleaseNamespace(id)

\* Every device is migrated.
(***************************************************************************)
(* Part V.  Runner.Resume (pkg/roles/runner.go) and the Accept of the      *)
(* agent server it starts (StartAgentServer).  The guest agent dials the   *)
(* listener and completes the handshake, or does not; the deadline of      *)
(* acceptCtx passes; the caller may cancel its context.                    *)
(***************************************************************************)
InitAgent ==
    /\ resumePc = "ResumeSnapshot"
    /\ acceptPc = "NotCalled"
    /\ acceptTimedOut = FALSE
    /\ remoteCtx = FALSE
    /\ agentInternalCtxCancelled = FALSE
    /\ readyCtxCancelled = FALSE
    /\ lis = "Open"
    /\ closed = FALSE
    /\ conn = "None"
    /\ guest = "Absent"
    /\ lisCloserPc = "NotStarted"
    /\ connCloserPc = "NotStarted"
    /\ linkPc = "NotStarted"
    /\ acceptErrs = {}
    /\ timedOutBeforeHandshake = FALSE
    /\ suspendAndClosePc = "NotCalled"
    /\ linkErr = FALSE
    /\ snapshotLog = [ requested |-> FALSE,         \* CreateSnapshot was called
                       beforeSuspend |-> "none",    \* what BeforeSuspend gave
                       closeFailed |-> FALSE,       \* acceptingAgent.Close returned an error
                       conn |-> "None",             \* the connection when CreateSnapshot was called
                       lis |-> "Open" ]             \* the listener when CreateSnapshot was called

\* acceptCtx := context.WithTimeout(ctx, resumeTimeout) (runner.go:237).
AcceptCtxDone == acceptTimedOut \/ remoteCtx

\* internalCtx of Accept: the panic handler is given acceptCtx (lines 81-85).
AgentInternalCtxDone == agentInternalCtxCancelled \/ AcceptCtxDone

\* readyCtx, cancelReadyCtx := context.WithCancel(acceptCtx) (line 92).
ReadyCtxDone == readyCtxCancelled \/ AcceptCtxDone

\* readyCtx as the comment of lines 90-91 has it: made from the background
\* context, done only by cancelReadyCtx.
ReadyCtxFromBackground == readyCtxCancelled

\* firecracker.ResumeSnapshot (runner.go:224-233); on success Resume makes
\* acceptCtx and calls agent.Accept (runner.go:237-240).
ResumeSnapshot ==
    /\ resumePc = "ResumeSnapshot"
    /\ \E ok \in BOOLEAN :
          IF ok THEN resumePc' = "Accept" /\ acceptPc' = "Start"
                ELSE resumePc' = "Failed" /\ UNCHANGED acceptPc
    /\ UNCHANGED << acceptTimedOut, remoteCtx, agentInternalCtxCancelled, readyCtxCancelled,
                    lis, closed, conn, guest, lisCloserPc, connCloserPc, linkPc, acceptErrs,
                    timedOutBeforeHandshake, suspendVars, notAgentVars >>

\* The deadline of acceptCtx passes.
ResumeTimeout ==
    /\ resumePc = "Accept"
    /\ ~acceptTimedOut
    /\ acceptTimedOut' = TRUE
    /\ timedOutBeforeHandshake' = (guest # "Handshaken")
    /\ UNCHANGED << resumePc, acceptPc, remoteCtx, agentInternalCtxCancelled, readyCtxCancelled,
                    lis, closed, conn, guest, lisCloserPc, connCloserPc, linkPc, acceptErrs,
                    suspendVars, notAgentVars >>

\* The caller of Resume cancels ctx.
CancelRemoteCtx ==
    /\ resumePc # "ResumeSnapshot"
    /\ ~remoteCtx
    /\ remoteCtx' = TRUE
    /\ UNCHANGED << resumePc, acceptPc, acceptTimedOut, agentInternalCtxCancelled,
                    readyCtxCancelled, lis, closed, conn, guest, lisCloserPc, connCloserPc,
                    linkPc, acceptErrs, timedOutBeforeHandshake, suspendVars, notAgentVars >>

\* The guest agent dials the listener.
GuestDials ==
    /\ resumePc = "Accept"
    /\ guest = "Absent"
    /\ lis = "Open"
    /\ guest' = "Dialled"
    /\ UNCHANGED << resumePc, acceptPc, acceptTimedOut, remoteCtx, agentInternalCtxCancelled,
                    readyCtxCancelled, lis, closed, conn, lisCloserPc, connCloserPc, linkPc,
                    acceptErrs, timedOutBeforeHandshake, suspendVars, notAgentVars >>

\* The guest agent completes the handshake before the deadline:
\* OnClientConnect calls cancelReadyCtx (lines 170-172).
GuestHandshake ==
    /\ guest = "Connected"
    /\ linkPc = "Linking"
    /\ conn = "Open"
    /\ ~acceptTimedOut
    /\ guest' = "Handshaken"
    /\ readyCtxCancelled' = TRUE
    /\ UNCHANGED << resumePc, acceptPc, acceptTimedOut, remoteCtx, agentInternalCtxCancelled,
                    lis, closed, conn, lisCloserPc, connCloserPc, linkPc, acceptErrs,
                    timedOutBeforeHandshake, suspendVars, notAgentVars >>

\* Accept up to lis.Accept: the contexts and the goroutine of lines 97-108.
AcceptStart ==
    /\ acceptPc = "Start"
    /\ acceptPc' = "LisAccept"
    /\ lisCloserPc' = "Select"
    /\ UNCHANGED << resumePc, acceptTimedOut, remoteCtx, agentInternalCtxCancelled,
                    readyCtxCancelled, lis, closed, conn, guest, connCloserPc, linkPc,
                    acceptErrs, timedOutBeforeHandshake, suspendVars, notAgentVars >>

\* The goroutine of lines 97-108 takes the case of internalCtx: agent.Close
\* (lines 66-76) closes the listener.
LisCloserOnInternalCtx ==
    /\ lisCloserPc = "Select"
    /\ AgentInternalCtxDone
    /\ lis' = "Closed"
    /\ closed' = TRUE
    /\ lisCloserPc' = "Done"
    /\ UNCHANGED << resumePc, acceptPc, acceptTimedOut, remoteCtx, agentInternalCtxCancelled,
                    readyCtxCancelled, conn, guest, connCloserPc, linkPc, acceptErrs,
                    timedOutBeforeHandshake, suspendVars, notAgentVars >>

\* The goroutine of lines 97-108 takes the case of readyCtx and ends.
LisCloserOnReadyCtx ==
    /\ lisCloserPc = "Select"
    /\ ReadyCtxDone
    /\ lisCloserPc' = "Done"
    /\ UNCHANGED << resumePc, acceptPc, acceptTimedOut, remoteCtx, agentInternalCtxCancelled,
                    readyCtxCancelled, lis, closed, conn, guest, connCloserPc, linkPc,
                    acceptErrs, timedOutBeforeHandshake, suspendVars, notAgentVars >>

\* What the deferred calls of Accept do when it panics with e (lines 86-93):
\* the error is joined, cancel and cancelReadyCtx run.
AcceptPanics(e) ==
    /\ acceptPc' = "Panicked"
    /\ acceptErrs' = acceptErrs \cup {e}
    /\ agentInternalCtxCancelled' = TRUE
    /\ readyCtxCancelled' = TRUE

\* lis.Accept returns a connection (line 110); Accept makes the registry,
\* starts the goroutine of lines 142-162 and the one that links the stream
\* (lines 218-222).
LisAcceptConn ==
    /\ acceptPc = "LisAccept"
    /\ lis = "Open"
    /\ guest = "Dialled"
    /\ guest' = "Connected"
    /\ conn' = "Open"
    /\ connCloserPc' = "Select"
    /\ linkPc' = "Linking"
    /\ acceptPc' = "Select"
    /\ UNCHANGED << resumePc, acceptTimedOut, remoteCtx, agentInternalCtxCancelled,
                    readyCtxCancelled, lis, closed, lisCloserPc, acceptErrs,
                    timedOutBeforeHandshake, suspendVars, notAgentVars >>

\* lis.Accept returns the error of a closed listener and Accept panics
\* (lines 111-120).
LisAcceptClosed ==
    /\ acceptPc = "LisAccept"
    /\ lis = "Closed"
    /\ AcceptPanics(IF acceptTimedOut THEN "DeadlineExceeded" ELSE "Canceled")
    /\ UNCHANGED << resumePc, acceptTimedOut, remoteCtx, lis, closed, conn, guest, lisCloserPc,
                    connCloserPc, linkPc, timedOutBeforeHandshake, suspendVars, notAgentVars >>

\* The goroutine of lines 142-162 takes the case of internalCtx:
\* acceptingAgent.Close closes the connection (lines 122-129).
ConnCloserOnInternalCtx ==
    /\ connCloserPc = "Select"
    /\ AgentInternalCtxDone
    /\ conn' = "Closed"
    /\ closed' = TRUE
    /\ connCloserPc' = "Wait"
    /\ UNCHANGED << resumePc, acceptPc, acceptTimedOut, remoteCtx, agentInternalCtxCancelled,
                    readyCtxCancelled, lis, guest, lisCloserPc, linkPc, acceptErrs,
                    timedOutBeforeHandshake, suspendVars, notAgentVars >>

\* The goroutine of lines 142-162 takes the case of readyCtx and waits for
\* remoteCtx (lines 152-153).
ConnCloserOnReadyCtx ==
    /\ connCloserPc = "Select"
    /\ ReadyCtxDone
    /\ connCloserPc' = "RemoteCtx"
    /\ UNCHANGED << resumePc, acceptPc, acceptTimedOut, remoteCtx, agentInternalCtxCancelled,
                    readyCtxCancelled, lis, closed, conn, guest, lisCloserPc, linkPc,
                    acceptErrs, timedOutBeforeHandshake, suspendVars, notAgentVars >>

\* <-remoteCtx.Done() returns and acceptingAgent.Close closes the
\* connection (lines 153-155).
ConnCloserOnRemoteCtx ==
    /\ connCloserPc = "RemoteCtx"
    /\ remoteCtx
    /\ conn' = "Closed"
    /\ closed' = TRUE
    /\ connCloserPc' = "Wait"
    /\ UNCHANGED << resumePc, acceptPc, acceptTimedOut, remoteCtx, agentInternalCtxCancelled,
                    readyCtxCancelled, lis, guest, lisCloserPc, linkPc, acceptErrs,
                    timedOutBeforeHandshake, suspendVars, notAgentVars >>

\* acceptingAgent.Close has waited for Wait; agent.Close follows
\* (lines 131-133, 149, 158).
ConnCloserCloses ==
    /\ connCloserPc = "Wait"
    /\ linkPc = "Done"
    /\ lis' = "Closed"
    /\ connCloserPc' = "Done"
    /\ UNCHANGED << resumePc, acceptPc, acceptTimedOut, remoteCtx, agentInternalCtxCancelled,
                    readyCtxCancelled, closed, conn, guest, lisCloserPc, linkPc, acceptErrs,
                    timedOutBeforeHandshake, suspendVars, notAgentVars >>

\* registry.LinkStream ends on the closed connection and Wait returns
\* remoteCtx.Err() (lines 199-205); when that is an error the goroutine of
\* lines 218-222 panics with it.
LinkEnds ==
    /\ linkPc = "Linking"
    /\ conn = "Closed"
    /\ linkPc' = "Done"
    /\ linkErr' = remoteCtx
    /\ IF remoteCtx
       THEN /\ agentInternalCtxCancelled' = TRUE
            /\ acceptErrs' = IF acceptPc \in {"Returned", "Panicked"}
                             THEN acceptErrs ELSE acceptErrs \cup {"Canceled"}
       ELSE UNCHANGED << agentInternalCtxCancelled, acceptErrs >>
    /\ UNCHANGED << resumePc, acceptPc, acceptTimedOut, remoteCtx, readyCtxCancelled, lis,
                    closed, conn, guest, lisCloserPc, connCloserPc, timedOutBeforeHandshake,
                    suspendAndClosePc, snapshotLog, notAgentVars >>

\* The select of lines 224-229 takes the case of internalCtx.
AcceptOnInternalCtx ==
    /\ acceptPc = "Select"
    /\ AgentInternalCtxDone
    /\ AcceptPanics(IF acceptTimedOut THEN "DeadlineExceeded" ELSE "Canceled")
    /\ UNCHANGED << resumePc, acceptTimedOut, remoteCtx, lis, closed, conn, guest, lisCloserPc,
                    connCloserPc, linkPc, timedOutBeforeHandshake, suspendVars, notAgentVars >>

\* The select of lines 224-229 takes the case of readyCtx; ForRemotes finds
\* the remote of a guest that completed the handshake, or Accept panics
\* with ErrNoRemoteFound (lines 231-245).
AcceptOnReadyCtx ==
    /\ acceptPc = "Select"
    /\ ReadyCtxDone
    /\ IF guest = "Handshaken"
       THEN /\ acceptPc' = "Returned"
            /\ agentInternalCtxCancelled' = TRUE
            /\ readyCtxCancelled' = TRUE
            /\ UNCHANGED acceptErrs
       ELSE AcceptPanics("ErrNoRemoteFound")
    /\ UNCHANGED << resumePc, acceptTimedOut, remoteCtx, lis, closed, conn, guest, lisCloserPc,
                    connCloserPc, linkPc, timedOutBeforeHandshake, suspendVars, notAgentVars >>

\* Accept has returned: Resume panics with its error or goes on
\* (runner.go:240-243).
AcceptReturned ==
    /\ resumePc = "Accept"
    /\ acceptPc \in {"Returned", "Panicked"}
    /\ resumePc' = IF acceptErrs # {} THEN "Failed" ELSE "AfterResume"
    /\ UNCHANGED << acceptPc, acceptTimedOut, remoteCtx, agentInternalCtxCancelled,
                    readyCtxCancelled, lis, closed, conn, guest, lisCloserPc, connCloserPc,
                    linkPc, acceptErrs, timedOutBeforeHandshake, suspendVars, notAgentVars >>

\* acceptingAgent.Remote.AfterResume (runner.go:267-272) and the return of
\* Resume.
AfterResume ==
    /\ resumePc = "AfterResume"
    /\ \E ok \in BOOLEAN : resumePc' = IF ok THEN "Returned" ELSE "Failed"
    /\ UNCHANGED << acceptPc, acceptTimedOut, remoteCtx, agentInternalCtxCancelled,
                    readyCtxCancelled, lis, closed, conn, guest, lisCloserPc, connCloserPc,
                    linkPc, acceptErrs, timedOutBeforeHandshake, suspendVars, notAgentVars >>

\* The steps of Resume, of Accept and of its goroutines, and the timer.
ResumeStep ==
    \/ ResumeSnapshot
    \/ ResumeTimeout
    \/ AcceptStart
    \/ LisCloserOnInternalCtx
    \/ LisCloserOnReadyCtx
    \/ LisAcceptConn
    \/ LisAcceptClosed
    \/ ConnCloserOnInternalCtx
    \/ ConnCloserOnReadyCtx
    \/ ConnCloserOnRemoteCtx
    \/ ConnCloserCloses
    \/ LinkEnds
    \/ AcceptOnInternalCtx
    \/ AcceptOnReadyCtx
    \/ AcceptReturned
    \/ AfterResume

\* What no step of SuspendAndCloseAgentServer changes.
notSuspendVars == << resumePc, acceptPc, acceptTimedOut, remoteCtx, agentInternalCtxCancelled,
                     readyCtxCancelled, guest, lisCloserPc, connCloserPc, linkPc, acceptErrs,
                     timedOutBeforeHandshake, linkErr, notAgentVars >>

\* What acceptingAgent.Remote.BeforeSuspend can give: the agent answers,
\* answers with an error, or the timeout passes; on a closed connection
\* there is no answer.
BeforeSuspendOutcomes ==
    IF conn = "Open" /\ linkPc = "Linking"
    THEN {"ok", "error", "timeout"}
    ELSE {"error", "timeout"}

\* Faulty variant: the error of BeforeSuspend is ignored.
BeforeSuspendErrorIgnored(outcome) == FALSE

\* err != nil (runner.go:292).
BeforeSuspendFailed(outcome) == outcome # "ok"

\* The caller of Resume calls SuspendAndCloseAgentServer: BeforeSuspend
\* under the timeout, and a panic with its error (runner.go:287-295).
BeforeSuspend ==
    /\ resumePc = "Returned"
    /\ suspendAndClosePc = "NotCalled"
    /\ \E outcome \in BeforeSuspendOutcomes :
          /\ snapshotLog' = [snapshotLog EXCEPT !.beforeSuspend = outcome]
          /\ suspendAndClosePc' = IF BeforeSuspendFailed(outcome) THEN "Panicked" ELSE "Close"
    /\ UNCHANGED << lis, closed, conn, notSuspendVars >>

\* acceptingAgent.Close closes the connection and calls Wait
\* (runner.go:298, part_003:122-133).
SuspendClosesConn ==
    /\ suspendAndClosePc = "Close"
    /\ conn' = "Closed"
    /\ closed' = TRUE
    /\ suspendAndClosePc' = "Wait"
    /\ UNCHANGED << lis, snapshotLog, notSuspendVars >>

\* Wait has returned: with its error SuspendAndCloseAgentServer returns,
\* without it agent.Close closes the listener (runner.go:298-301).
SuspendClosesAgent ==
    /\ suspendAndClosePc = "Wait"
    /\ linkPc = "Done"
    /\ IF linkErr
       THEN /\ suspendAndClosePc' = "Failed"
            /\ snapshotLog' = [snapshotLog EXCEPT !.closeFailed = TRUE]
            /\ UNCHANGED << lis, closed >>
       ELSE /\ suspendAndClosePc' = "CreateSnapshot"
            /\ lis' = "Closed"
            /\ closed' = TRUE
            /\ UNCHANGED snapshotLog
    /\ UNCHANGED << conn, notSuspendVars >>

\* firecracker.CreateSnapshot with SnapshotTypeMsyncAndState
\* (runner.go:303-312).
SuspendCreateSnapshot ==
    /\ suspendAndClosePc = "CreateSnapshot"
    /\ snapshotLog' = [snapshotLog EXCEPT !.requested = TRUE, !.conn = conn, !.lis = lis]
    /\ \E ok \in BOOLEAN : suspendAndClosePc' = IF ok THEN "Returned" ELSE "Failed"
    /\ UNCHANGED << lis, closed, conn, notSuspendVars >>

NextResume ==
    \/ ResumeStep
    \/ CancelRemoteCtx
    \/ GuestDials
    \/ GuestHandshake

\* Resume and, once it has returned, SuspendAndCloseAgentServer.
NextSuspend ==
    \/ NextResume
    \/ BeforeSuspend
    \/ SuspendClosesConn
    \/ SuspendClosesAgent
    \/ SuspendCreateSnapshot

Init == InitSrc /\ InitPeer /\ InitHints /\ InitSession /\ InitAgent /\ InitCaller /\ InitNat /\ streams = Devices /\ unknownName = {}

\* The sending peer migrates the memory device only.
InitSingle ==
    InitSrc /\ InitPeer /\ InitHints /\ InitSession /\ InitAgent /\ InitCaller /\ InitNat /\ streams = {MemoryName}
        /\ unknownName = {}

\* The migration of cmd/drafter-silo-serve.
Spec == Init /\ [][NextSrc]_vars

\* Peer.MigrateFrom.
SpecPeer == Init /\ [][NextPeer]_vars

\* Peer.MigrateFrom with cancellation, the end of the transport, Wait and Close.
SpecSession == InitSingle /\ [][NextSession]_vars

\* Runner.Resume followed by SuspendAndCloseAgentServer.
SpecSuspend == Init /\ [][NextSuspend]_vars

\* CreateNAT, Close and the pool of namespaces.
SpecNat == Init /\ [][NextNat]_vars

\* The NeedAt callback with any offset and any length.
SpecAnyHints == Init /\ [][NextAnyHints]_vars

\* The session with a caller that calls migratedPeer.Close too.
SpecCaller == InitSingle /\ [][NextCaller]_vars

\* The NeedAt and DontNeedAt callbacks.
SpecHints == Init /\ [][NextHints]_vars

\* MigrateFrom with a sending peer that sends DirtyList frames.
DirtyListStep(d) ==
    \/ PeerSendDirtyList(d)
    \/ HandleDirtyList(d)

NextDirtyList ==
    \/ NextPeer
    \/ \E d \in Devices : DirtyListStep(d)

SpecDirtyList == Init /\ [][NextDirtyList]_vars

\* MigrateFrom with streams whose DevInfo may name no configured device.
InitDevInfo ==
    /\ InitSrc /\ InitPeer /\ InitHints /\ InitSession /\ InitAgent /\ InitCaller /\ InitNat
    /\ streams = Devices
    /\ unknownName \in SUBSET Devices

NextDevInfo ==
    \/ NextPeer
    \/ PanicOnInternalCtx

SpecDevInfo == InitDevInfo /\ [][NextDevInfo]_vars

\* The source side with a guest that may write without end, under fair
\* scheduling: every goroutine that can step does, every hypervisor and
\* transport call returns.
NextLive ==
    \/ NextSrc
    \/ \E d \in Devices : \E b \in Blocks : GuestKeepsWriting(d, b)

FairSrc ==
    /\ \A d \in Devices : WF_vars(LoopStep(d)) /\ WF_vars(BackgroundStep(d))
    /\ \A d \in Devices : \A b \in Blocks : WF_vars(TransferBlock(d, b))
    /\ WF_vars(SuspendCall)
    /\ WF_vars(SuspendReturn)
    /\ WF_vars(CompletedWgWait)

SpecLive == Init /\ [][NextLive]_vars /\ FairSrc

\* Runner.Resume: every goroutine that can step does, and the timer fires.
SpecResume == Init /\ [][NextResume]_vars /\ WF_vars(ResumeStep)

(***************************************************************************)
(* Claims about the source side, checked under Spec.                       *)
(***************************************************************************)

\* C1: AssumeAuthority for a device is sent only after the runner.Suspend
\* call of the migration has returned, and, the destination resuming only
\* after AssumeAuthority of every device, the source guest and the
\* destination guest never run at the same time.
C1_AuthorityAfterSuspend ==
    /\ \A d \in Devices : hist[d].assume > 0 => suspendPc = "Done"
    /\ ~(SourceVMRunning /\ dstResumed)

\* C1 witness: the destination has resumed after the authority of every
\* device was passed.
C1_Witness ==
    /\ dstResumed
    /\ \A d \in Devices : hist[d].assume = 1 /\ dstAssumed[d] = 1

\* C2 (as claimed): when Completed(d) has been sent, every block of d
\* written before the guest was suspended is at the destination in its
\* last written state.
C2_NoWrittenBlockLost ==
    \A d \in Devices : hist[d].completed > 0 => stale[d] = {}

\* C3 (as claimed): AssumeAuthority is sent only after the final
\* post-suspend DirtyList and the payloads of the final dirty set.
C3_PayloadsBeforeAuthority ==
    \A d \in Devices :
        hist[d].assume > 0 =>
            /\ finalDrain[d].done
            /\ finalDrain[d].set # {} => hist[d].finalListed
            /\ hist[d].unsentAtAssume = {}

\* C3 (amended): AssumeAuthority is sent only after the final post-suspend
\* drain and, when it is not empty, its DirtyList; the payloads of that
\* final dirty set are queued after AssumeAuthority and are at the
\* destination before Completed is sent.
C3_ListBeforeAuthorityPayloadsBeforeCompleted ==
    \A d \in Devices :
        /\ hist[d].assume > 0 =>
              /\ finalDrain[d].done
              /\ finalDrain[d].set # {} => hist[d].finalListed
        /\ hist[d].completed > 0 => finalDrain[d].set \cap stale[d] = {}

\* C3 witness: a device has completed whose final dirty set was not empty
\* and not yet sent when AssumeAuthority was sent.
C3_Witness ==
    \E d \in Devices :
        /\ hist[d].completed > 0
        /\ finalDrain[d].set # {}
        /\ hist[d].unsentAtAssume # {}

\* C4 (as claimed): on each channel DevInfo is sent once and before any
\* WriteAt, AssumeAuthority once, Completed once and as the last frame.
C4_FrameOrder ==
    \A d \in Devices :
        /\ hist[d].devInfo <= 1
        /\ ~hist[d].writeBeforeDevInfo
        /\ hist[d].assume <= 1
        /\ hist[d].completed <= 1
        /\ hist[d].afterCompleted = {}
        /\ hist[d].completed > 0 => hist[d].devInfo = 1 /\ hist[d].assume = 1

\* C7 (as claimed): the suspend flag is set only after more than
\* SmallDrainsNeeded small drains of the memory device in a row.
C7_ConsecutiveSmallDrains ==
    suspendVM => drainLog.inRow > SmallDrainsNeeded

\* C8: only the threshold check of the memory device sets the suspend
\* flag; another device counts nothing and stays in its drain loop until
\* the flag is set.
C8_OnlyMemorySetsFlag ==
    /\ [][suspendVM' # suspendVM =>
            pc[MemoryName] = "Threshold" /\ pc'[MemoryName] = "DirtyList"]_vars
    /\ [](\A d \in Devices \ {MemoryName} :
            /\ subsequentSyncs[d] = 0
            /\ ~suspendVM =>
                 pc[d] \in {"SendDevInfo", "Migrate", "WaitForCompletion", "LoopHead",
                            "Msync", "GetLatestDirty", "UnlockNil", "Threshold",
                            "DirtyList", "AssumeAuthority", "MigrateDirty"})

\* C8 witness: the disk device is past the threshold check with a small
\* drain and the flag is not set.
C8_Witness ==
    /\ pc[DiskName] = "DirtyList"
    /\ IsSmallDrain(blocks[DiskName])
    /\ ~suspendVM

\* C9: an empty drain of the memory device before the rendezvous
\* increments subsequentSyncs, and the flag is set once the counter
\* exceeds the threshold, also when the guest never writes.
C9_EmptyDrainCounts ==
    /\ [][(/\ pc[MemoryName] = "Threshold"
           /\ pc'[MemoryName] # "Threshold"
           /\ blocks[MemoryName] = {}
           /\ ~suspendedVM[MemoryName])
          => subsequentSyncs'[MemoryName] = subsequentSyncs[MemoryName] + 1]_vars
    /\ [](subsequentSyncs[MemoryName] > SmallDrainsNeeded => suspendVM)

\* C9 witness: the flag is set and the guest has not written at all.
C9_Witness ==
    /\ writes = 0
    /\ suspendVM
    /\ subsequentSyncs[MemoryName] > SmallDrainsNeeded

C11_MsyncOnlyBeforeFlag ==
    /\ [](~msyncLog.byOther /\ ~msyncLog.flagged /\ ~msyncLog.suspending)
    /\ [][(pc[MemoryName] = "GetLatestDirty" /\ pc'[MemoryName] # "GetLatestDirty")
             => msyncLog.sinceDrain = (IF suspendVM THEN 0 ELSE 1)]_vars

\* C11 witness: an Msync was issued and runner.Suspend has returned since.
C11_Witness ==
    /\ msyncLog.issued
    /\ suspendPc = "Done"
    /\ pc[MemoryName] = "Threshold"

\* The device is in the loop body between its drain and MigrateDirty.
HoldsDrain(d) == pc[d] \in {"UnlockNil", "Threshold", "DirtyList", "AssumeAuthority",
                            "MigrateDirty"}

\* Blocks of a device whose transfer has been asked for and has not been
\* made: queued in the migrator, or held by a background goroutine that
\* has not yet called MigrateDirty.
Outstanding(d) ==
    pending[d] \cup (IF bgPc[d] \in {"spawned", "added"} THEN bgBlocks[d] ELSE {})

\* C22 (as claimed): main does not pass completedWg.Wait() until all block
\* transfers of every device have completed and Completed has been sent
\* for it.
C22_FinishAfterAllCompleted ==
    mainPc = "Finished" =>
        \A d \in Devices : hist[d].completed > 0 /\ Outstanding(d) = {}

\* C26: runner.Suspend is called once, after every device has finished its
\* initial pass and called suspendWg.Done(), each device once, so that the
\* counter is the number of devices still to come and never negative; no
\* device goes past the rendezvous before runner.Suspend has returned.
C26_SuspendOnceAfterAllDevices ==
    /\ [](/\ suspendWg >= 0
          /\ suspendWg = Cardinality({d \in Devices : ~suspendedVM[d]})
          /\ suspendPc # "Wait" =>
                \A d \in Devices :
                    /\ suspendedVM[d]
                    /\ pc[d] \notin {"SendDevInfo", "Migrate", "WaitForCompletion"}
          /\ \A d \in Devices :
                (suspendedVM[d] /\ pc[d] \notin {"UnlockBeforeWait", "SuspendedWgWait"})
                    => suspendPc = "Done")
    /\ [][suspendPc' # suspendPc =>
            \/ suspendPc = "Wait" /\ suspendPc' = "Suspending"
            \/ suspendPc = "Suspending" /\ suspendPc' = "Done"]_vars

\* C26 witness: runner.Suspend has returned and every device has gone past
\* the rendezvous and finished.
C26_Witness ==
    /\ suspendPc = "Done"
    /\ suspendWg = 0
    /\ \A d \in Devices : pc[d] = "Done"

\* C27: at main.go:810, where MigrateDirty is called in the loop or the
\* background goroutine that calls it is started, the blocks handed over
\* are named by the DirtyList sent before it in the same iteration.
C27_DirtyListBeforePayloads ==
    \A d \in Devices :
        /\ ~hist[d].unlisted
        /\ pc[d] = "MigrateDirty" => blocks[d] \subseteq hist[d].lastList

\* C27 witness: the background goroutine of a device has been given a
\* non-empty drain that the DirtyList before it named.
C27_Witness ==
    \E d \in Devices :
        /\ bgPc[d] = "added"
        /\ bgBlocks[d] # {}
        /\ hist[d].lastList = bgBlocks[d]

C23_EveryDeviceTerminates ==
    <>(\A d \in Devices :
          /\ pc[d] = "Done"
          /\ suspendedVM[d]
          /\ hist[d].assume > 0
          /\ hist[d].completed > 0)

\* C29 (as claimed): when AssumeAuthority of a device is sent, its
\* background MigrateDirty, if one was started, has finished.
C29_BackgroundDoneBeforeAuthority ==
    \A d \in Devices : hist[d].assume > 0 => bgPc[d] \in {"none", "done"}

(***************************************************************************)
(* Claims about Peer.MigrateFrom, checked under SpecPeer.                  *)
(***************************************************************************)

\* C5 (as claimed): MigrateFrom returns successfully only when every
\* device whose DevInfo was received has had its authority event handled.
C5_ReturnOnlyWithAllAuthority ==
    atReturn.returned => atReturn.withoutAuthority = {}

\* C6 (as claimed): once allDevicesReceivedCtx is done (and
\* OnAllDevicesReceived has fired), every device the sender sent DevInfo
\* for is recorded in receivedDevices.
C6_AllReceivedAfterEveryDevInfo ==
    allDevicesReceivedCtx =>
        \A d \in Devices : senderPc[d] # "DevInfo" => d \in receivedDevices

(***************************************************************************)
(* Claims about the hint callbacks, checked under SpecHints.               *)
(***************************************************************************)

\* The blocks that the byte range of the hint being handled covers.
CoveredBlocks ==
    { b \in HintBlocks :
        /\ hintOffset \div HintBlockSize <= b
        /\ b <= (EndOffset(hintOffset, hintLength) - 1) \div HintBlockSize }

\* C12: for a NeedAt hint inside the device with a positive length,
\* PrioritiseBlock is called exactly once for each block the byte range
\* covers and for no other block.
C12_NeedAtPrioritisesCovered ==
    /\ hintPc = "NeedAtReturned" =>
          \A b \in HintBlocks : prioritised[b] = (IF b \in CoveredBlocks THEN 1 ELSE 0)
    /\ hintPc = "NeedAt" =>
          \A b \in HintBlocks : prioritised[b] <= (IF b \in CoveredBlocks THEN 1 ELSE 0)

\* C12 witness: a NeedAt hint that starts past block 0, is clamped at the
\* end of the device and covers more than one block has been handled.
C12_Witness ==
    /\ hintPc = "NeedAtReturned"
    /\ hintOffset >= HintBlockSize
    /\ hintOffset + hintLength > HintSize
    /\ Cardinality(CoveredBlocks) > 1

\* C13 (as claimed): for a DontNeedAt hint, Remove is called exactly for
\* the blocks the byte range covers, so never for block 0 when the range
\* does not touch it.
C13_DontNeedAtRemovesCovered ==
    hintPc = "DontNeedAtReturned" =>
        \A b \in HintBlocks : removed[b] = (IF b \in CoveredBlocks THEN 1 ELSE 0)

\* C35 (as claimed): for a NeedAt with any offset and any length,
\* PrioritiseBlock is never called with an index outside [0, totalBlocks)
\* and the loop makes at most totalBlocks rounds. Checked under
\* SpecAnyHints.
C35_PrioritiseInsideDevice ==
    hintPc \in {"NeedAt", "NeedAtReturned"} =>
        /\ \A b \in HintIndices : prioritised[b] > 0 => (0 <= b /\ b < TotalBlocks)
        /\ hintB - NeedAtStartBlock(hintOffset) <= TotalBlocks

(***************************************************************************)
(* Claims about the session of Peer.MigrateFrom, checked under             *)
(* SpecSession.                                                            *)
(***************************************************************************)

\* C14 (as claimed): when the transport ends, cleanly or not, before
\* Completed has come for every received device, Wait returns an error
\* and OnAllMigrationsCompleted does not fire.
C14_EarlyEndFailsWait ==
    (sessionLog.endedEarly /\ waitPc = "Done") =>
        (waitErr # "nil" /\ onAllMigrationsCompleted = 0)

\* C15 (as claimed): OnAllMigrationsCompleted fires at most once, and only
\* after OnDeviceMigrationCompleted has fired for every received device.
C15_AllCompletedOnceAndLast ==
    /\ onAllMigrationsCompleted <= 1
    /\ onAllMigrationsCompleted > 0 => sessionLog.completedMissing = {}

\* C16 (as claimed): when ctx was cancelled before all devices were ready,
\* MigrateFrom does not return through its last select with Resume set and
\* no error.
C16_CancelledNeverSucceeds ==
    (atReturn.returned /\ atReturn.cancelled) => atReturn.errs # {}

\* C17 (as claimed): when ctx was cancelled before all devices were ready,
\* the teardown goroutine calls Close without waiting for hypervisorCtx.
C17_CloseWithoutHypervisor ==
    ~(/\ teardownPc = "AwaitHypervisor"
      /\ sessionLog.cancelledBeforeReady
      /\ ~hypervisorCtx)

\* C24 (as claimed): after MigrateFrom has returned without error, ctx not
\* being cancelled, the teardown goroutine does not call Close before
\* hypervisorCtx is done.
C24_OpenAfterReturn ==
    (atReturn.returned /\ atReturn.errs = {} /\ ~ctxCancelled /\ ~hypervisorCtx)
        => teardownPc \in {"Select", "AwaitHypervisor"}

\* The calls Close has made.
CloseCalled == {closeCalls[i] : i \in 1 .. Len(closeCalls)}

\* C18 (as claimed): once Close has returned, every device that
\* device.Init() has initialised has had its Close and its Shutdown called.
C18_EveryInitialisedDeviceClosed ==
    teardownPc = "Closed" =>
        \A d \in streams :
            devInfoPc[d] \in {"Register", "Expose", "Done"} =>
                {<< d, "Close" >>, << d, "Shutdown" >>} \subseteq CloseCalled

\* C19: Close calls runner.Close, every close function it found registered
\* and Wait, each once and whatever the earlier calls returned, and its
\* result joins exactly the errors of the calls that failed.
C19_CloseCallsAllJoinsAll ==
    /\ teardownPc = "Closed" =>
          /\ CloseCalled =
                {<< "runner", "Close" >>, << "peer", "Wait" >>} \cup sessionLog.deferred
          /\ Len(closeCalls) = Cardinality(sessionLog.deferred) + 2
          /\ closeErrs = sessionLog.failed
    /\ teardownPc \in {"Lock", "CloseFuncs", "Wait"} => closeErrs = sessionLog.failed

\* C19 witness: Close has returned after runner.Close and a close function
\* of a device failed and the later calls were still made.
C19_Witness ==
    /\ teardownPc = "Closed"
    /\ << "runner", "Close" >> \in closeErrs
    /\ << MemoryName, "Shutdown" >> \in closeErrs
    /\ << MemoryName, "Close" >> \in CloseCalled
    /\ Len(closeCalls) = 4

\* The place of a close function in deviceCloseFuncs, 0 when it is not in it.
Registered(f) ==
    IF \E i \in 1 .. Len(deviceCloseFuncs) : deviceCloseFuncs[i] = f
    THEN CHOOSE i \in 1 .. Len(deviceCloseFuncs) : deviceCloseFuncs[i] = f
    ELSE 0

\* The calls of Close that are calls of registered close functions.
IsCloseFunc(f) == f \notin {<< "runner", "Close" >>, << "peer", "Wait" >>}

\* C31 (amended): the calls Close makes are in a fixed order: runner.Close
\* first, then the close functions it found registered, last registered
\* first, so that the Shutdown of a device is called before its Close,
\* and migratedPeer.Wait last, after every one of them.
C31_CloseCallsInOrder ==
    /\ \A i \in 1 .. Len(closeCalls) :
          /\ (closeCalls[i] = << "runner", "Close" >>) <=> (i = 1)
          /\ closeCalls[i] = << "peer", "Wait" >> =>
                /\ i = Len(closeCalls)
                /\ closeFuncs = << >>
                /\ sessionLog.deferred \subseteq CloseCalled
          /\ IsCloseFunc(closeCalls[i]) => Registered(closeCalls[i]) > 0
    /\ \A i, j \in 1 .. Len(closeCalls) :
          (i < j /\ IsCloseFunc(closeCalls[i]) /\ IsCloseFunc(closeCalls[j]))
              => Registered(closeCalls[i]) > Registered(closeCalls[j])
    /\ \A d \in streams :
          << d, "Close" >> \in CloseCalled => << d, "Shutdown" >> \in CloseCalled

\* C31 witness: Close has returned after runner.Close, the Shutdown and the
\* Close of the memory device and Wait, in that order.
C31_Witness ==
    /\ teardownPc = "Closed"
    /\ closeCalls = << << "runner", "Close" >>, << MemoryName, "Shutdown" >>,
                       << MemoryName, "Close" >>, << "peer", "Wait" >> >>

\* C31 (as claimed): the order of C31_CloseCallsInOrder, and the function
\* behind Wait runs and the protocol context is cancelled only after the
\* close functions have run.
C31_WaitRunsAfterCloseFuncs ==
    /\ C31_CloseCallsInOrder
    /\ (waitPc # "NotStarted" \/ protocolCtxCancelled)
          => teardownPc \in {"Wait", "Closed"}

\* The times Close has invoked a function.
TimesCalled(f) == Cardinality({i \in 1 .. Len(closeCalls) : closeCalls[i] = f})

\* C32 (as claimed): the Close and the Shutdown of a device are invoked at
\* most once in a session, also when the teardown goroutine and the
\* caller both call migratedPeer.Close. Checked under SpecCaller.
C32_DeviceClosedAtMostOnce ==
    \A d \in streams :
        /\ TimesCalled(<< d, "Close" >>) <= 1
        /\ TimesCalled(<< d, "Shutdown" >>) <= 1

\* The place of a hook in the order OnDeviceReceived, OnDeviceExposed,
\* OnDeviceAuthorityReceived, OnDeviceMigrationCompleted.
HookRank(h) ==
    CASE h = "OnDeviceReceived" -> 1
      [] h = "OnDeviceExposed" -> 2
      [] h = "OnDeviceAuthorityReceived" -> 3
      [] OTHER -> 4

\* C25 (as claimed): the hooks of a device fire in the order
\* OnDeviceReceived, OnDeviceExposed, OnDeviceAuthorityReceived,
\* OnDeviceMigrationCompleted. Checked under SpecPeer.
C25_HooksInOrder ==
    \A d \in Devices :
        \A i, j \in 1 .. Len(hooks[d]) :
            i < j => HookRank(hooks[d][i]) < HookRank(hooks[d][j])

\* C30 (as claimed): every DirtyList received on the channel of a device
\* is applied to the waiting cache of the device, none is dropped.
\* Checked under SpecDirtyList.
C30_NoDirtyListDropped ==
    \A d \in Devices :
        /\ dirtyLists[d].dropped = 0
        /\ dirtyLists[d].applied + dirtyLists[d].queued = dirtyLists[d].sent

(***************************************************************************)
(* Claims about a DevInfo that names no configured device, checked under   *)
(* SpecDevInfo.                                                            *)
(***************************************************************************)
\* The streams whose DevInfo callback has passed receivedButNotReadyDevices.Add(1).
AddedDevices == {d \in Devices :
    devInfoPc[d] \in {"OnDeviceReceived", "Init", "Register", "Expose", "Done"}}

\* For a DevInfo with an unknown name nothing is set up: the name is not
\* appended, the counter is not incremented for it, no hook fires, no
\* backing file and no NBD device is made.
C21_NothingSetUp ==
    /\ \A d \in unknownName :
          /\ devInfoPc[d] \in {"Idle", "Panicked"}
          /\ d \notin receivedDevices
          /\ \A i \in 1 .. Len(hooks[d]) :
                hooks[d][i] \notin {"OnDeviceReceived", "OnDeviceExposed"}
          /\ devInfoPc[d] = "Panicked" => "ErrUnknownDeviceName" \in errs
    /\ receivedButNotReadyDevices =
          Cardinality(AddedDevices) - Cardinality(AuthorityReceived)

C36_PoolClaims ==
    /\ \A id \in NamespaceIDs : natLog.held[id] <= 1
    /\ \A id \in NamespaceIDs : (id \in claimed) => natLog.held[id] = 1
    /\ ~natLog.claimWrong
    /\ ~natLog.unknownChanged
    /\ claimed \subseteq claimableNamespaces

\* C36 witness: with every namespace of the pool claimed a claim has
\* failed, an unknown ID has been released, and a namespace is held.
C36_Witness ==
    /\ natLog.claimFailed
    /\ natLog.unknownReleased
    /\ claimableNamespaces = NamespaceIDs
    /\ claimed # {}

\* C37: over any number of calls of Close, RemoveNAT is called at most
\* once and each namespace at most once; once a call of Close has
\* returned every opened namespace has been closed, the pool is empty and
\* ClaimNamespace gives ErrAllNamespacesClaimed.
C37_CloseIdempotent ==
    /\ natLog.removeNAT <= 1
    /\ \A id \in NamespaceIDs : natLog.nsClosed[id] <= 1
    /\ natLog.closesDone > 0 =>
          /\ natLog.removeNAT = 1
          /\ \A id \in natLog.opened : natLog.nsClosed[id] = 1
          /\ claimableNamespaces = {}
    /\ natLog.claimAfterClose \in {"none", "ErrAllNamespacesClaimed"}

\* C37 witness: two calls of Close have returned after every namespace
\* was made, and a claim after them has failed.
C37_Witness ==
    /\ natLog.closesDone = 2
    /\ natLog.opened = NamespaceIDs
    /\ natLog.removeNAT = 1
    /\ natLog.claimAfterClose = "ErrAllNamespacesClaimed"

\* C38: when ctx is cancelled while the loop of CreateNAT runs, no
\* namespace is opened or put into the pool after Close has emptied it,
\* and once the Close of the background goroutine has returned every
\* namespace the loop opened has been closed.
C38_NoNamespaceLeftOpen ==
    natLog.cancelledInLoop =>
        /\ ~natLog.openedAfterClear
        /\ natClosePc["Background"] = "Done" =>
              /\ \A id \in natLog.opened : natLog.nsClosed[id] = 1
              /\ claimableNamespaces = {}

\* C38 witness: ctx was cancelled after the loop had opened a namespace
\* and before it had made them all, and the Close of the background
\* goroutine has returned.
C38_Witness ==
    /\ natLog.cancelledInLoop
    /\ natLog.opened # {}
    /\ natLog.opened # NamespaceIDs
    /\ natClosePc["Background"] = "Done"
    /\ natPc = "Panicked"

(***************************************************************************)
(* Claims about Runner.Resume, checked under SpecResume.                   *)
(***************************************************************************)
\* C33: the snapshot of SuspendAndCloseAgentServer is asked for only after
\* BeforeSuspend has answered without error within the timeout and the
\* accepted connection and the listener have been closed; when
\* BeforeSuspend or the closing of the connection fails, it is not asked
\* for. Checked under SpecSuspend.
C33_SnapshotAfterBeforeSuspendAndClose ==
    /\ snapshotLog.requested =>
          /\ snapshotLog.beforeSuspend = "ok"
          /\ snapshotLog.conn = "Closed"
          /\ snapshotLog.lis = "Closed"
          /\ ~snapshotLog.closeFailed
    /\ suspendAndClosePc = "CreateSnapshot" => (conn = "Closed" /\ lis = "Closed")

\* C33 witness: the snapshot has been asked for and
\* SuspendAndCloseAgentServer has returned.
C33_Witness ==
    /\ snapshotLog.requested
    /\ suspendAndClosePc = "Returned"
    /\ snapshotLog.beforeSuspend = "ok"

\* C34 (as claimed): once Accept has returned without error, the accepted
\* connection and the listener stay open as long as remoteCtx is not
\* done: the cancel() that Accept defers does not make its goroutines
\* close them.
C34_OpenAfterAccept ==
    (acceptPc = "Returned" /\ ~remoteCtx) => (conn = "Open" /\ lis = "Open")

\* C20: when the deadline of acceptCtx passes and no guest agent has
\* completed the handshake, Resume eventually returns with an error,
\* whichever done context the goroutines of Accept take.
C20_ResumeFailsAfterTimeout == timedOutBeforeHandshake ~> (resumePc = "Failed")

====
